---- MODULE Spec2Model ----
(***************************************************************************)
(* A model of the cache classes of src/src/cacheing/__init__.py and of the *)
(* linked lists of src/src/cacheing/utils.py.                              *)
(*                                                                         *)
(* One cache instance is modelled.  Its class, capacity and ttl settings   *)
(* are fixed by Init; every public operation is one action.  A method is   *)
(* an operator from an object state (a record of the instance's fields,    *)
(* plus the pending exception and the return value) to an object state,    *)
(* so that a call that raises half way leaves exactly the fields the code  *)
(* had already assigned.                                                   *)
(***************************************************************************)
EXTENDS Integers, Sequences, FiniteSets, TLC

(* ------------------------------ bounds -------------------------------- *)
NumKeys == 3
MaxCapacity == 2
MaxClock == 1
MaxFreq == 3
MaxLinks == 2
NumTTLKeys == 2
MaxTtl == 2

Keys == 1..NumKeys
\* 0 is a falsy Python value, 1 a truthy one; only key 1 is given both
Values == {0, 1}
ValuesOf(k) == IF k = 1 THEN Values ELSE {1}
RCacheFamily == {"RCache", "LRUCache", "LFUCache", "RandomCache",
                 "TTLCache", "VTTLCache", "BoundedTTLCache"}
VolatileFamily == {"VolatileCache", "VolatileLRUCache", "VolatileLFUCache",
                   "VolatileRandomCache", "VolatileTTLCache"}
LRUFamily == {"LRUCache", "TTLCache", "VTTLCache", "BoundedTTLCache"}
TTLFamily == {"TTLCache", "VTTLCache", "BoundedTTLCache", "VolatileTTLCache"}
Classes == RCacheFamily \cup VolatileFamily

NULL == 0
None == <<>>
\* the default handed to get(key, default) and pop(key, default)
Default == <<-1>>
\* Python's None as a key or value of a returned pair
PyNone == -2

VARIABLES
    cls,            \* the concrete class of the instance
    capacity,       \* RCache.__capacity / VolatileCache.__capacity
    ttl,            \* TTLCache.__ttl
    ttl_min,        \* BoundedTTLCache.ttl_min
    ttl_max,        \* BoundedTTLCache.ttl_max
    now,            \* the reading of time.monotonic
    time,           \* the reading of self._time, the _time argument of __init__
    cache,          \* __cache: dict, as the sequence of its (key, value) items
    size,           \* __size
    expires_map,    \* VolatileCache._expires_map: dict
    lru,            \* _lru: OrderedDict
    lfu,            \* LFULinkedList: the chain of LFUNode after the head
    node_cache,     \* LFULinkedList.node_cache: key -> position in lfu
    set,            \* RandomCache.set / VolatileRandomCache._set: list
    idx_map,        \* idx_map: key -> index in set
    links,          \* _links: key -> link
    heap,           \* the _TTLLink objects
    head,           \* _TTLLinkedList.__head
    tail,           \* _TTLLinkedList.__tail
    rep,            \* VTTLCache.__rep: list of links
    touched,        \* history: live keys, most recently got or set first
    count,          \* history: number of sets and gets of each live key
    setAt,          \* history: clock reading at the most recent set of a key
    dueAt,          \* history: clock reading plus ttl at the most recent set of a key
    persists        \* history: flag of the most recent set of each live key

vars == <<cls, capacity, ttl, ttl_min, ttl_max, now, time, cache, size, expires_map,
          lru, lfu, node_cache, set, idx_map, links, heap, head, tail, rep,
          touched, count, setAt, dueAt, persists>>

config == <<cls, capacity, ttl, ttl_min, ttl_max>>

(* ------------------------- Python dict and list ----------------------- *)
DictKeys(d) == {d[i][1] : i \in DOMAIN d}

Has(d, k) == \E i \in DOMAIN d : d[i][1] = k

IndexOf(d, k) == CHOOSE i \in DOMAIN d : d[i][1] = k

Lookup(d, k) == d[IndexOf(d, k)][2]

\* d[k] = v: an existing key keeps its place, a new key goes last
Store(d, k, v) ==
    IF Has(d, k) THEN [d EXCEPT ![IndexOf(d, k)] = <<k, v>>]
    ELSE Append(d, <<k, v>>)

Remove(d, k) == SelectSeq(d, LAMBDA p : p[1] # k)

\* OrderedDict.move_to_end(k, last=False)
MoveToFront(d, k) == <<d[IndexOf(d, k)]>> \o Remove(d, k)

Truthy(v) == v # 0

KeySeq(d) == [i \in DOMAIN d |-> d[i][1]]

WithoutKeyIn(q, k) == SelectSeq(q, LAMBDA x : x # k)

(* --------------------------- object states ---------------------------- *)
Cur ==
    [cache |-> cache, size |-> size, expires_map |-> expires_map, lru |-> lru,
     lfu |-> lfu, node_cache |-> node_cache, set |-> set, idx_map |-> idx_map,
     links |-> links, heap |-> heap, head |-> head, tail |-> tail, rep |-> rep,
     calls |-> <<>>, exc |-> "none", ret |-> None, rnd |-> 1, draw |-> 0]

\* the object state of a call whose random.choice picks index rnd and whose
\* random.randrange returns draw
CurWith(rnd, draw) == [Cur EXCEPT !.rnd = rnd, !.draw = draw]

Raise(s, e) == [s EXCEPT !.exc = e, !.ret = None]

Return(s, v) == [s EXCEPT !.ret = v]

\* an assignment or del statement has no value
Statement(s) == [s EXCEPT !.ret = None]

Caught(s) == [s EXCEPT !.exc = "none"]

Callback(s, k, v) == [s EXCEPT !.calls = Append(s.calls, <<k, v>>)]

\* a statement "x = E" followed by the rest of the method: the rest sees the
\* value of E under the name x
Bind(x, rest(_)) == rest(x)

\* dynamic dispatch on the class of self; defined after the methods
RECURSIVE GetItem(_, _)
RECURSIVE DelItem(_, _)
RECURSIVE PopItem(_)
RECURSIVE Evict(_)

(* ------------------------------- RCache ------------------------------- *)
\* while self.__size >= self.__capacity: self._evict()
RECURSIVE RCache_evict_loop(_)
RCache_evict_loop(s) ==
    IF s.exc # "none" THEN s
    ELSE IF s.size >= capacity THEN RCache_evict_loop(Evict(s))
    ELSE s

RCache_setitem_noevict(s, k, v) ==
    IF ~Has(s.cache, k)
    THEN [s EXCEPT !.cache = Store(s.cache, k, v), !.size = s.size + 1]
    ELSE [s EXCEPT !.cache = Store(s.cache, k, v)]

RCache_setitem(s, k, v) ==
    IF ~Has(s.cache, k)
    THEN Bind(RCache_evict_loop(s), LAMBDA s1 :
         IF s1.exc # "none" THEN s1
         ELSE [s1 EXCEPT !.cache = Store(s1.cache, k, v), !.size = s1.size + 1])
    ELSE [s EXCEPT !.cache = Store(s.cache, k, v)]

RCache_getitem(s, k) ==
    IF Has(s.cache, k) THEN Return(s, <<Lookup(s.cache, k)>>)
    ELSE Raise(s, "KeyError")

\* get(): self[_key] is the getitem of the concrete class
RCache_get(s, k) ==
    Bind(GetItem(s, k), LAMBDA s1 :
    IF s1.exc = "KeyError" THEN Return(Caught(s1), Default) ELSE s1)

RCache_delitem(s, k) ==
    IF Has(s.cache, k)
    THEN [s EXCEPT !.cache = Remove(s.cache, k), !.size = s.size - 1]
    ELSE Raise(s, "KeyError")

\* pop(): self[_key], then del self[_key], both of the concrete class
RCache_pop(s, k, withDefault) ==
    Bind(GetItem(s, k), LAMBDA s1 :
    Bind(IF s1.exc = "none" THEN DelItem(s1, k) ELSE s1, LAMBDA s2 :
        IF s2.exc = "KeyError"
        THEN IF withDefault THEN Return(Caught(s2), Default) ELSE Raise(s2, "KeyError")
        ELSE IF s2.exc = "none" THEN Return(s2, s1.ret)
        ELSE s2))

\* dict.popitem() removes the item inserted last
RCache_popitem(s) ==
    IF s.cache = <<>> THEN Raise(s, "KeyError")
    ELSE Bind(s.cache[Len(s.cache)], LAMBDA itm :
         Return([s EXCEPT !.cache = SubSeq(s.cache, 1, Len(s.cache) - 1),
                          !.size = s.size - 1], itm))

\* next(iter(self)) is the item inserted first
RCache_evict(s) ==
    IF s.cache = <<>> THEN Raise(s, "KeyError")
    ELSE Bind(s.cache[1][1], LAMBDA key :
         Bind(GetItem(s, key), LAMBDA s1 :
             IF s1.exc # "none" THEN s1
             ELSE Bind(s1.ret[1], LAMBDA value :
                  Bind([s1 EXCEPT !.cache = Remove(s1.cache, key),
                                       !.size = s1.size - 1], LAMBDA s2 :
                                           Return(Callback(s2, key, value), <<key, value>>)))))

(* ------------------------------ LRUCache ------------------------------ *)
LRUCache_getitem(s, k) ==
    Bind(RCache_getitem(s, k), LAMBDA s1 :
    IF s1.exc # "none" THEN s1
    ELSE IF ~Has(s1.lru, k) THEN Raise(s1, "KeyError")
    ELSE Return([s1 EXCEPT !.lru = MoveToFront(s1.lru, k)], s1.ret))

LRUCache_setitem(s, k, v) ==
    Bind(RCache_setitem(s, k, v), LAMBDA s1 :
    IF s1.exc # "none" THEN s1
    ELSE [s1 EXCEPT !.lru = MoveToFront(Store(s1.lru, k, v), k)])

\* a delete that leaves the key in the ledger
LRUCache_delitem_keeping(s, k) == RCache_delitem(s, k)

LRUCache_delitem(s, k) ==
    Bind(RCache_delitem(s, k), LAMBDA s1 :
    IF s1.exc # "none" THEN s1
    ELSE IF ~Has(s1.lru, k) THEN Raise(s1, "KeyError")
    ELSE [s1 EXCEPT !.lru = Remove(s1.lru, k)])

\* OrderedDict.popitem() removes the last item
LRUCache_popitem_first(s) ==
    IF s.lru = <<>> THEN Raise(s, "KeyError")
    ELSE Bind(s.lru[1], LAMBDA itm :
         Bind([s EXCEPT !.lru = Tail(s.lru)], LAMBDA s1 :
         Bind(RCache_delitem(s1, itm[1]), LAMBDA s2 :
             IF s2.exc # "none" THEN s2 ELSE Return(s2, itm))))

LRUCache_popitem(s) ==
    IF s.lru = <<>> THEN Raise(s, "KeyError")
    ELSE Bind(s.lru[Len(s.lru)], LAMBDA itm :
         Bind([s EXCEPT !.lru = SubSeq(s.lru, 1, Len(s.lru) - 1)], LAMBDA s1 :
         Bind(RCache_delitem(s1, itm[1]), LAMBDA s2 :
             IF s2.exc # "none" THEN s2 ELSE Return(s2, itm))))

\* self.popitem() is the popitem of the concrete class
LRUCache_evict(s) ==
    Bind(PopItem(s), LAMBDA s1 :
    IF s1.exc = "KeyError" THEN s1
    ELSE IF s1.exc # "none" THEN s1
    ELSE IF Len(s1.ret) # 2 THEN Raise(s1, "TypeError")
    ELSE Return(Callback(s1, s1.ret[1], s1.ret[2]), None))

(* ---------------------------- VolatileCache --------------------------- *)
\* while self.__size >= self.__capacity and self._expires_map: self._evict()
RECURSIVE VolatileCache_evict_loop(_)
VolatileCache_evict_loop(s) ==
    IF s.exc # "none" THEN s
    ELSE IF s.size >= capacity /\ s.expires_map # <<>>
         THEN VolatileCache_evict_loop(Evict(s))
    ELSE s

VolatileCache_setitem(s, k, v, expires) ==
    IF ~Has(s.cache, k)
    THEN Bind(VolatileCache_evict_loop(s), LAMBDA s1 :
         IF s1.exc # "none" THEN s1
         ELSE IF s1.size < capacity
         THEN [s1 EXCEPT !.cache = Store(s1.cache, k, v),
                         !.expires_map = IF expires THEN Store(s1.expires_map, k, v)
                                         ELSE s1.expires_map,
                         !.size = s1.size + 1]
         ELSE s1)
    ELSE [s EXCEPT !.cache = Store(s.cache, k, v),
                   !.expires_map = IF expires THEN Store(s.expires_map, k, v)
                                   ELSE s.expires_map]

VolatileCache_getitem(s, k) ==
    IF Has(s.cache, k) THEN Return(s, <<Lookup(s.cache, k)>>)
    ELSE Raise(s, "KeyError")

VolatileCache_get(s, k) ==
    Bind(GetItem(s, k), LAMBDA s1 :
    IF s1.exc = "KeyError" THEN Return(Caught(s1), Default) ELSE s1)

VolatileCache_delitem(s, k) ==
    IF Has(s.cache, k)
    THEN [s EXCEPT !.cache = Remove(s.cache, k),
                   !.expires_map = Remove(s.expires_map, k),
                   !.size = s.size - 1]
    ELSE Raise(s, "KeyError")

VolatileCache_pop(s, k, withDefault) ==
    Bind(GetItem(s, k), LAMBDA s1 :
    Bind(IF s1.exc = "none" THEN DelItem(s1, k) ELSE s1, LAMBDA s2 :
        IF s2.exc = "KeyError"
        THEN IF withDefault THEN Return(Caught(s2), Default) ELSE Raise(s2, "KeyError")
        ELSE IF s2.exc = "none" THEN Return(s2, s1.ret)
        ELSE s2))

VolatileCache_popitem(s) ==
    IF s.cache = <<>> THEN Raise(s, "KeyError")
    ELSE Bind(s.cache[Len(s.cache)], LAMBDA itm :
         Return([s EXCEPT !.cache = SubSeq(s.cache, 1, Len(s.cache) - 1),
                          !.expires_map = Remove(s.expires_map, itm[1]),
                          !.size = s.size - 1], itm))

\* next(iter(self._expires_map)) is the first key of _expires_map
VolatileCache_evict(s) ==
    IF s.expires_map = <<>> THEN Raise(s, "KeyError")
    ELSE Bind(s.expires_map[1][1], LAMBDA key :
         Bind(GetItem(s, key), LAMBDA s1 :
             IF s1.exc # "none" THEN s1
             ELSE Bind(s1.ret[1], LAMBDA value :
                  Bind([s1 EXCEPT !.cache = Remove(s1.cache, key),
                                       !.expires_map = Remove(s1.expires_map, key),
                                       !.size = s1.size - 1], LAMBDA s2 :
                                           Return(Callback(s2, key, value), None)))))

(* -------------------------- VolatileLRUCache -------------------------- *)
VolatileLRUCache_setitem(s, k, v, expires) ==
    Bind(VolatileCache_setitem(s, k, v, expires), LAMBDA s1 :
    IF s1.exc # "none" THEN s1
    ELSE IF expires
    THEN [s1 EXCEPT !.lru = MoveToFront(Store(s1.lru, k, v), k)]
    ELSE s1)

VolatileLRUCache_getitem(s, k) ==
    Bind(VolatileCache_getitem(s, k), LAMBDA s1 :
    IF s1.exc # "none" THEN s1
    ELSE IF Has(s1.expires_map, k) /\ Truthy(Lookup(s1.expires_map, k))
    THEN IF ~Has(s1.lru, k) THEN Raise(s1, "KeyError")
         ELSE Return([s1 EXCEPT !.lru = MoveToFront(s1.lru, k)], s1.ret)
    ELSE s1)

VolatileLRUCache_delitem(s, k) ==
    Bind(VolatileCache_delitem(s, k), LAMBDA s1 :
    IF s1.exc # "none" THEN s1
    ELSE IF ~Has(s1.lru, k) THEN Raise(s1, "KeyError")
    ELSE IF Truthy(Lookup(s1.lru, k)) THEN [s1 EXCEPT !.lru = Remove(s1.lru, k)]
    ELSE s1)

VolatileLRUCache_popitem(s) ==
    IF s.lru = <<>> THEN Raise(s, "KeyError")
    ELSE Bind(s.lru[Len(s.lru)], LAMBDA itm :
         Bind([s EXCEPT !.lru = SubSeq(s.lru, 1, Len(s.lru) - 1)], LAMBDA s1 :
         Bind(VolatileCache_delitem(s1, itm[1]), LAMBDA s2 :
             IF s2.exc # "none" THEN s2 ELSE Return(s2, itm))))

VolatileLRUCache_evict(s) ==
    Bind(PopItem(s), LAMBDA s1 :
    IF s1.exc # "none" THEN s1
    ELSE IF Len(s1.ret) # 2 THEN Raise(s1, "TypeError")
    ELSE Return(Callback(s1, s1.ret[1], s1.ret[2]), None))

(* ---------------------------- LFULinkedList --------------------------- *)
\* A node is [frequency, items]; lfu[i] is the i-th node after the dummy
\* head, and node_cache[key] is the position of the key's node.
ItemsAdd(items, k) == IF \E i \in DOMAIN items : items[i] = k THEN items ELSE Append(items, k)

ItemsHas(items, k) == \E i \in DOMAIN items : items[i] = k

LFU_insert(s, k) ==
    Bind(IF s.lfu = <<>> THEN <<[frequency |-> 1, items |-> <<>>]>> ELSE s.lfu, LAMBDA chain :
        [s EXCEPT !.lfu = [chain EXCEPT ![1].items = ItemsAdd(chain[1].items, k)],
                  !.node_cache = [s.node_cache EXCEPT ![k] = 1]])

\* an increment that makes a new node even when the next node has the
\* frequency wanted
LFU_increment_always_new(s, k) ==
    IF s.node_cache[k] = NULL THEN Raise(s, "KeyError")
    ELSE Bind(s.node_cache[k], LAMBDA p :
         Bind(s.lfu[p], LAMBDA node :
             IF node.frequency >= MaxFreq THEN Raise(s, "Bound")
             ELSE [s EXCEPT
                     !.lfu = SubSeq(s.lfu, 1, p - 1)
                             \o <<[node EXCEPT !.items = WithoutKeyIn(node.items, k)]>>
                             \o <<[frequency |-> node.frequency + 1, items |-> <<k>>]>>
                             \o SubSeq(s.lfu, p + 1, Len(s.lfu)),
                     !.node_cache = [j \in Keys |->
                         IF j = k THEN p + 1
                         ELSE IF s.node_cache[j] > p THEN s.node_cache[j] + 1
                         ELSE s.node_cache[j]]]))

\* the frequency of the node before position p+1 (the dummy head has 0)
LFU_increment(s, k) ==
    IF s.node_cache[k] = NULL THEN Raise(s, "KeyError")
    ELSE Bind(s.node_cache[k], LAMBDA p :
         Bind(s.lfu[p], LAMBDA node :
             IF ~ItemsHas(node.items, k) THEN Raise(s, "KeyError")
             ELSE IF node.frequency >= MaxFreq THEN Raise(s, "Bound")
             ELSE Bind([s.lfu EXCEPT ![p].items = WithoutKeyIn(node.items, k)], LAMBDA c1 :
                 IF p < Len(c1) /\ c1[p + 1].frequency = node.frequency + 1
                      THEN [s EXCEPT
                              !.lfu = [c1 EXCEPT ![p + 1].items = ItemsAdd(c1[p + 1].items, k)],
                              !.node_cache = [s.node_cache EXCEPT ![k] = p + 1]]
                      ELSE [s EXCEPT
                              !.lfu = SubSeq(c1, 1, p)
                                      \o <<[frequency |-> node.frequency + 1, items |-> <<k>>]>>
                                      \o SubSeq(c1, p + 1, Len(c1)),
                              !.node_cache = [j \in Keys |->
                                  IF j = k THEN p + 1
                                  ELSE IF s.node_cache[j] > p THEN s.node_cache[j] + 1
                                  ELSE s.node_cache[j]]])))

LFU_delete(s, k) ==
    IF s.node_cache[k] = NULL THEN Raise(s, "KeyError")
    ELSE Bind(s.node_cache[k], LAMBDA p :
         IF ~ItemsHas(s.lfu[p].items, k) THEN Raise(s, "KeyError")
         ELSE [s EXCEPT !.lfu = [s.lfu EXCEPT ![p].items = WithoutKeyIn(s.lfu[p].items, k)],
                        !.node_cache = [s.node_cache EXCEPT ![k] = NULL]])

\* the position of the first node from position p on that has items, or 0
RECURSIVE LFU_first_nonempty(_, _)
LFU_first_nonempty(chain, p) ==
    IF p > Len(chain) THEN 0
    ELSE IF chain[p].items # <<>> THEN p
    ELSE LFU_first_nonempty(chain, p + 1)

LFU_popleft_newest(s) ==
    Bind(LFU_first_nonempty(s.lfu, 1), LAMBDA p :
    IF p = 0 THEN Raise(s, "KeyError")
    ELSE Bind(s.lfu[p].items, LAMBDA its :
         Bind(its[Len(its)], LAMBDA key :
             Return([s EXCEPT !.lfu = [s.lfu EXCEPT ![p].items = SubSeq(its, 1, Len(its) - 1)],
                              !.node_cache = [s.node_cache EXCEPT ![key] = NULL]],
                    <<key>>))))

\* items.popitem(False) removes the key that entered the node first
LFU_popleft(s) ==
    Bind(LFU_first_nonempty(s.lfu, 1), LAMBDA p :
    IF p = 0 THEN Raise(s, "KeyError")
    ELSE Bind(Head(s.lfu[p].items), LAMBDA key :
         Return([s EXCEPT !.lfu = [s.lfu EXCEPT ![p].items = Tail(s.lfu[p].items)],
                          !.node_cache = [s.node_cache EXCEPT ![key] = NULL]],
                <<key>>)))

(* ------------------------------ LFUCache ------------------------------ *)
LFUCache_setitem(s, k, v) ==
    Bind(RCache_setitem(s, k, v), LAMBDA s1 :
    IF s1.exc # "none" THEN s1
    ELSE IF s1.node_cache[k] # NULL THEN LFU_increment(s1, k)
    ELSE LFU_insert(s1, k))

LFUCache_getitem(s, k) ==
    Bind(RCache_getitem(s, k), LAMBDA s1 :
    IF s1.exc # "none" THEN s1
    ELSE Bind(LFU_increment(s1, k), LAMBDA s2 :
         IF s2.exc # "none" THEN s2 ELSE Return(s2, s1.ret)))

LFUCache_delitem(s, k) ==
    Bind(RCache_delitem(s, k), LAMBDA s1 :
    IF s1.exc # "none" THEN s1 ELSE LFU_delete(s1, k))

LFUCache_popitem(s) ==
    Bind(LFU_popleft(s), LAMBDA s1 :
    IF s1.exc # "none" THEN s1
    ELSE Bind(s1.ret[1], LAMBDA key :
         Bind(RCache_getitem(s1, key), LAMBDA s2 :
             IF s2.exc # "none" THEN s2
             ELSE Bind(RCache_delitem(s2, key), LAMBDA s3 :
                  IF s3.exc # "none" THEN s3 ELSE Return(s3, <<key, s2.ret[1]>>)))))

LFUCache_evict(s) ==
    Bind(PopItem(s), LAMBDA s1 :
    IF s1.exc # "none" THEN s1
    ELSE Return(Callback(s1, s1.ret[1], s1.ret[2]), None))

(* -------------------------- VolatileLFUCache -------------------------- *)
\* a set that leaves a key set again with expires=False in its frequency node
VolatileLFUCache_setitem_keeping(s, k, v, expires) ==
    Bind(VolatileCache_setitem(s, k, v, expires), LAMBDA s1 :
    IF s1.exc # "none" THEN s1
    ELSE IF s1.node_cache[k] # NULL /\ expires THEN LFU_increment(s1, k)
    ELSE IF s1.node_cache[k] = NULL /\ expires THEN LFU_insert(s1, k)
    ELSE s1)

VolatileLFUCache_setitem(s, k, v, expires) ==
    Bind(VolatileCache_setitem(s, k, v, expires), LAMBDA s1 :
    IF s1.exc # "none" THEN s1
    ELSE IF s1.node_cache[k] # NULL /\ ~expires THEN LFU_delete(s1, k)
    ELSE IF s1.node_cache[k] # NULL /\ expires THEN LFU_increment(s1, k)
    ELSE IF s1.node_cache[k] = NULL /\ expires THEN LFU_insert(s1, k)
    ELSE s1)

VolatileLFUCache_getitem(s, k) ==
    Bind(VolatileCache_getitem(s, k), LAMBDA s1 :
    IF s1.exc # "none" THEN s1
    ELSE IF s1.node_cache[k] # NULL
    THEN Bind(LFU_increment(s1, k), LAMBDA s2 :
         IF s2.exc # "none" THEN s2 ELSE Return(s2, s1.ret))
    ELSE s1)

VolatileLFUCache_delitem(s, k) ==
    Bind(VolatileCache_delitem(s, k), LAMBDA s1 :
    IF s1.exc # "none" THEN s1
    ELSE IF s1.node_cache[k] # NULL THEN LFU_delete(s1, k)
    ELSE s1)

VolatileLFUCache_popitem(s) ==
    IF s.expires_map = <<>> THEN Return(s, <<PyNone, PyNone>>)
    ELSE Bind(LFU_popleft(s), LAMBDA s1 :
         IF s1.exc # "none" THEN s1
         ELSE Bind(s1.ret[1], LAMBDA key :
              Bind(VolatileCache_getitem(s1, key), LAMBDA s2 :
                  IF s2.exc # "none" THEN s2
                  ELSE Bind(VolatileCache_delitem(s2, key), LAMBDA s3 :
                       IF s3.exc # "none" THEN s3 ELSE Return(s3, <<key, s2.ret[1]>>)))))

VolatileLFUCache_evict(s) ==
    Bind(PopItem(s), LAMBDA s1 :
    IF s1.exc # "none" THEN s1
    ELSE Return(Callback(s1, s1.ret[1], s1.ret[2]), None))

(* ----------------------------- RandomCache ---------------------------- *)
\* a removal that moves the last key into the gap and leaves its idx_map
\* entry as it was
SwapRemove_stale(s, k) ==
    Bind(s.set[Len(s.set)], LAMBDA last_elem :
    Bind(s.idx_map[k], LAMBDA index :
    Bind(IF index < Len(s.set) THEN [s.set EXCEPT ![index] = last_elem] ELSE s.set, LAMBDA set1 :
        [s EXCEPT !.set = SubSeq(set1, 1, Len(set1) - 1),
                  !.idx_map = [s.idx_map EXCEPT ![k] = NULL]])))

\* set and idx_map after the swap-with-last removal of k
SwapRemove(s, k) ==
    Bind(s.set[Len(s.set)], LAMBDA last_elem :
    Bind(s.idx_map[k], LAMBDA index :
    Bind(Len(s.set), LAMBDA ssize :
    Bind(IF index < ssize THEN [s.set EXCEPT ![index] = last_elem] ELSE s.set, LAMBDA set1 :
    Bind(IF index < ssize THEN [s.idx_map EXCEPT ![last_elem] = index]
                ELSE s.idx_map, LAMBDA map1 :
                    [s EXCEPT !.set = SubSeq(set1, 1, Len(set1) - 1),
                  !.idx_map = [map1 EXCEPT ![k] = NULL]])))))

RandomCache_setitem(s, k, v) ==
    Bind(RCache_setitem(s, k, v), LAMBDA s1 :
    IF s1.exc # "none" THEN s1
    ELSE IF s1.idx_map[k] = NULL
    THEN [s1 EXCEPT !.set = Append(s1.set, k),
                    !.idx_map = [s1.idx_map EXCEPT ![k] = Len(s1.set) + 1]]
    ELSE s1)

RandomCache_delitem(s, k) ==
    Bind(RCache_delitem(s, k), LAMBDA s1 :
    IF s1.exc # "none" THEN s1
    ELSE IF s1.set = <<>> THEN Raise(s1, "IndexError")
    ELSE IF s1.idx_map[k] = NULL THEN Raise(s1, "KeyError")
    ELSE SwapRemove(s1, k))

\* random.choice(self.set), the draw being s.rnd
RandomCache_popitem(s) ==
    IF s.set = <<>> \/ s.rnd > Len(s.set) THEN Raise(s, "KeyError")
    ELSE Bind(s.set[s.rnd], LAMBDA key :
         Bind(RCache_getitem(s, key), LAMBDA s1 :
             IF s1.exc # "none" THEN s1
             ELSE Bind(DelItem(s1, key), LAMBDA s2 :
                  IF s2.exc # "none" THEN s2 ELSE Return(s2, <<key, s1.ret[1]>>))))

RandomCache_evict(s) ==
    Bind(PopItem(s), LAMBDA s1 :
    IF s1.exc # "none" THEN s1
    ELSE Return(Callback(s1, s1.ret[1], s1.ret[2]), None))

(* ------------------------- VolatileRandomCache ------------------------ *)
VolatileRandomCache_setitem(s, k, v, expires) ==
    Bind(VolatileCache_setitem(s, k, v, expires), LAMBDA s1 :
    IF s1.exc # "none" THEN s1
    ELSE IF s1.idx_map[k] = NULL /\ expires
    THEN [s1 EXCEPT !.set = Append(s1.set, k),
                    !.idx_map = [s1.idx_map EXCEPT ![k] = Len(s1.set) + 1]]
    ELSE s1)

VolatileRandomCache_delitem(s, k) ==
    Bind(VolatileCache_delitem(s, k), LAMBDA s1 :
    IF s1.exc # "none" THEN s1
    ELSE IF s1.idx_map[k] # NULL THEN SwapRemove(s1, k)
    ELSE s1)

VolatileRandomCache_popitem(s) ==
    IF s.set = <<>> \/ s.rnd > Len(s.set) THEN Raise(s, "KeyError")
    ELSE Bind(s.set[s.rnd], LAMBDA key :
         Bind(VolatileCache_getitem(s, key), LAMBDA s1 :
             IF s1.exc # "none" THEN s1
             ELSE Bind(DelItem(s1, key), LAMBDA s2 :
                  IF s2.exc # "none" THEN s2 ELSE Return(s2, <<key, s1.ret[1]>>))))

VolatileRandomCache_evict(s) ==
    Bind(PopItem(s), LAMBDA s1 :
    IF s1.exc # "none" THEN s1
    ELSE Return(Callback(s1, s1.ret[1], s1.ret[2]), None))

(* ---------------------------- _TTLLinkedList -------------------------- *)
\* A link is heap[id] = [key, expiry, next, prev]; next and prev are ids, or
\* NULL for None.  An id whose key is 0 holds no object.
FreeLink == [key |-> 0, expiry |-> 0, next |-> NULL, prev |-> NULL]

RECURSIVE Closure(_, _)
Closure(h, S) ==
    Bind((S \cup {h[i].next : i \in S} \cup {h[i].prev : i \in S}) \ {NULL}, LAMBDA S2 :
        IF S2 = S THEN S ELSE Closure(h, S2))

\* the links some reference still leads to
Reachable(s) ==
    Closure(s.heap, ({s.links[k] : k \in Keys} \cup {s.head, s.tail}
                     \cup {s.rep[i] : i \in DOMAIN s.rep}) \ {NULL})

\* seq's ids appended to order, each once, NULL left out
RECURSIVE AddAll(_, _, _)
AddAll(order, seq, i) ==
    IF i > Len(seq) THEN order
    ELSE IF seq[i] = NULL \/ (\E j \in DOMAIN order : order[j] = seq[i])
         THEN AddAll(order, seq, i + 1)
    ELSE AddAll(Append(order, seq[i]), seq, i + 1)

RECURSIVE Discover(_, _, _)
Discover(h, order, i) ==
    IF i > Len(order) THEN order
    ELSE Discover(h, AddAll(order, <<h[order[i]].next, h[order[i]].prev>>, 1), i + 1)

\* Objects no reference leads to are gone, and the ids of the others are the
\* order in which _links, head, tail, rep and then next and prev lead to
\* them: an id is a name of the model, not a value of the program.
Collect(s) ==
    LET roots == [k \in 1..NumKeys |-> s.links[k]] \o <<s.head, s.tail>> \o s.rep
        order == Discover(s.heap, AddAll(<<>>, roots, 1), 1)
        Pos(id) == IF id = NULL THEN NULL ELSE CHOOSE i \in DOMAIN order : order[i] = id
    IN  [s EXCEPT
           !.heap = [i \in DOMAIN s.heap |->
                       IF i <= Len(order)
                       THEN [key |-> s.heap[order[i]].key,
                             expiry |-> s.heap[order[i]].expiry,
                             next |-> Pos(s.heap[order[i]].next),
                             prev |-> Pos(s.heap[order[i]].prev)]
                       ELSE FreeLink],
           !.links = [k \in Keys |-> Pos(s.links[k])],
           !.head = Pos(s.head),
           !.tail = Pos(s.tail),
           !.rep = [i \in DOMAIN s.rep |-> Pos(s.rep[i])]]

\* _TTLLink(key, expiry, None, None): the new object's id is returned
NewLink(s, k, expiry) ==
    Bind(Reachable(s), LAMBDA R :
    Bind((DOMAIN s.heap) \ R, LAMBDA free :
        IF free = {} THEN Raise(s, "Bound")
        ELSE Bind(CHOOSE i \in free : \A j \in free : i <= j, LAMBDA id :
             Return([s EXCEPT !.heap[id] = [key |-> k, expiry |-> expiry,
                                            next |-> NULL, prev |-> NULL]], <<id>>))))

List_insert(s, link) ==
    IF s.head # NULL
    THEN Bind([s EXCEPT !.heap[link].prev = s.tail], LAMBDA s1 :
         IF s1.heap[link].prev = NULL THEN Raise(s1, "AttributeError")
         ELSE [s1 EXCEPT !.heap[s1.heap[link].prev].next = link, !.tail = link])
    ELSE [s EXCEPT !.head = link, !.tail = link]

List_remove(s, link) ==
    IF s.head = link THEN [s EXCEPT !.head = s.heap[link].next]
    ELSE IF s.tail = link THEN [s EXCEPT !.tail = s.heap[link].prev]
    ELSE IF s.heap[link].prev = NULL THEN Raise(s, "AttributeError")
    ELSE Bind([s EXCEPT !.heap[s.heap[link].prev].next = s.heap[link].next], LAMBDA s1 :
         IF s1.heap[link].next = NULL THEN Raise(s1, "AttributeError")
         ELSE [s1 EXCEPT !.heap[s1.heap[link].next].prev = s1.heap[link].prev])

List_sorted_insert(s, prev_link, link) ==
    IF prev_link = NULL THEN [s EXCEPT !.head = link, !.tail = link]
    ELSE IF s.heap[prev_link].expiry <= s.heap[link].expiry
    THEN Bind([s EXCEPT !.heap[link].next = s.heap[prev_link].next], LAMBDA s1 :
         Bind([s1 EXCEPT !.heap[link].prev = prev_link], LAMBDA s2 :
         Bind([s2 EXCEPT !.heap[prev_link].next = link], LAMBDA s3 :
             IF s3.tail = prev_link THEN [s3 EXCEPT !.tail = link] ELSE s3)))
    ELSE Bind([s EXCEPT !.heap[link].next = prev_link], LAMBDA s1 :
         Bind([s1 EXCEPT !.heap[link].prev = s1.heap[prev_link].prev], LAMBDA s2 :
         Bind([s2 EXCEPT !.heap[prev_link].prev = link], LAMBDA s3 :
             IF s3.head = prev_link THEN [s3 EXCEPT !.head = link] ELSE s3)))

(* ------------------------------ TTLCache ------------------------------ *)
\* del self._links[key]
Links_del(s, k) ==
    IF s.links[k] = NULL THEN Raise(s, "KeyError")
    ELSE [s EXCEPT !.links[k] = NULL]

\* a sweep that walks past the links that have not expired, n links at most
RECURSIVE TTLCache_sweep_all(_, _, _)
TTLCache_sweep_all(s, curr, n) ==
    IF curr = NULL \/ n = 0 THEN s
    ELSE IF s.heap[curr].expiry <= now
    THEN Bind(LRUCache_delitem(s, s.heap[curr].key), LAMBDA s1 :
         IF s1.exc # "none" THEN s1
         ELSE Bind(List_remove(s1, curr), LAMBDA s2 :
              IF s2.exc # "none" THEN s2
              ELSE Bind(Links_del(s2, s2.heap[curr].key), LAMBDA s3 :
                   IF s3.exc # "none" THEN s3
                   ELSE TTLCache_sweep_all(s3, s3.heap[curr].next, n - 1))))
    ELSE TTLCache_sweep_all(s, s.heap[curr].next, n - 1)

TTLCache_expire_from_thorough(s, curr) == TTLCache_sweep_all(s, curr, MaxLinks + 1)

\* the loop of the expire decorator, curr being the link it is at
RECURSIVE TTLCache_expire_from(_, _)
TTLCache_expire_from(s, curr) ==
    IF curr = NULL THEN s
    ELSE IF s.heap[curr].expiry <= now
    THEN Bind(LRUCache_delitem(s, s.heap[curr].key), LAMBDA s1 :
         IF s1.exc # "none" THEN s1
         ELSE Bind(List_remove(s1, curr), LAMBDA s2 :
              IF s2.exc # "none" THEN s2
              ELSE Bind(Links_del(s2, s2.heap[curr].key), LAMBDA s3 :
                   IF s3.exc # "none" THEN s3
                   ELSE TTLCache_expire_from(s3, s3.heap[curr].next))))
    ELSE s

\* a sweep that reports a key it removed to the callback
TTLCache_expire_notifying(s) ==
    Bind(TTLCache_expire_from(s, s.head), LAMBDA r :
        IF DictKeys(s.cache) \subseteq DictKeys(r.cache) THEN r
        ELSE Callback(r, CHOOSE k \in DictKeys(s.cache) \ DictKeys(r.cache) : TRUE, 0))

TTLCache_expire(s) == TTLCache_expire_from(s, s.head)

\* the link handling that follows LRUCache.__setitem__
TTLCache_setitem_link(s, k, lifetime) ==
    IF s.links[k] = NULL
    THEN Bind(NewLink(s, k, time + lifetime), LAMBDA s1 :
         IF s1.exc # "none" THEN s1
         ELSE List_insert([s1 EXCEPT !.links[k] = s1.ret[1]], s1.ret[1]))
    ELSE Bind(s.links[k], LAMBDA link :
         Bind(List_remove(s, link), LAMBDA s1 :
             IF s1.exc # "none" THEN s1
             ELSE List_insert([s1 EXCEPT !.heap[link].expiry = time + lifetime], link)))

TTLCache_setitem(s, k, v) ==
    Bind(TTLCache_expire(s), LAMBDA s0 :
    IF s0.exc # "none" THEN s0
    ELSE Bind(LRUCache_setitem(s0, k, v), LAMBDA s1 :
         IF s1.exc # "none" THEN s1 ELSE TTLCache_setitem_link(s1, k, ttl)))

TTLCache_getitem(s, k) ==
    Bind(TTLCache_expire(s), LAMBDA s0 :
    IF s0.exc # "none" THEN s0 ELSE LRUCache_getitem(s0, k))

TTLCache_get(s, k) ==
    Bind(TTLCache_expire(s), LAMBDA s0 :
    IF s0.exc # "none" THEN s0
    ELSE Bind(GetItem(s0, k), LAMBDA s1 :
         IF s1.exc = "KeyError" THEN Return(Caught(s1), Default) ELSE s1))

\* the removal of the key's link from _list and _links
TTLCache_unlink(s, k) ==
    IF s.links[k] = NULL THEN Raise(s, "KeyError")
    ELSE Bind(List_remove(s, s.links[k]), LAMBDA s1 :
         IF s1.exc # "none" THEN s1 ELSE Links_del(s1, k))

TTLCache_delitem(s, k) ==
    Bind(TTLCache_expire(s), LAMBDA s0 :
    IF s0.exc # "none" THEN s0
    ELSE Bind(LRUCache_delitem(s0, k), LAMBDA s1 :
         IF s1.exc # "none" THEN s1 ELSE TTLCache_unlink(s1, k)))

TTLCache_contains(s, k) ==
    Bind(TTLCache_expire(s), LAMBDA s0 :
    IF s0.exc # "none" THEN s0
    ELSE Return(s0, <<IF Has(s0.cache, k) THEN 1 ELSE 0>>))

TTLCache_len(s) ==
    Bind(TTLCache_expire(s), LAMBDA s0 :
    IF s0.exc # "none" THEN s0 ELSE Return(s0, <<Len(s0.cache)>>))

TTLCache_evict(s) ==
    Bind(LRUCache_popitem(s), LAMBDA s1 :
    IF s1.exc # "none" THEN s1
    ELSE Bind(TTLCache_unlink(s1, s1.ret[1]), LAMBDA s2 :
         IF s2.exc # "none" THEN s2
         ELSE Return(Callback(s2, s1.ret[1], s1.ret[2]), None)))

\* popitem() has no return statement
TTLCache_popitem(s) ==
    Bind(LRUCache_popitem(s), LAMBDA s1 :
    IF s1.exc # "none" THEN s1
    ELSE Bind(TTLCache_unlink(s1, s1.ret[1]), LAMBDA s2 :
         IF s2.exc # "none" THEN s2 ELSE Return(s2, None)))

(* ------------------------------ VTTLCache ----------------------------- *)
\* list.remove(link): the first occurrence goes, ValueError when there is none
Rep_remove(s, link) ==
    IF \A i \in DOMAIN s.rep : s.rep[i] # link THEN Raise(s, "ValueError")
    ELSE Bind(CHOOSE i \in DOMAIN s.rep :
                      s.rep[i] = link /\ \A j \in 1..(i - 1) : s.rep[j] # link, LAMBDA i :
                          [s EXCEPT !.rep = SubSeq(s.rep, 1, i - 1) \o SubSeq(s.rep, i + 1, Len(s.rep))])

\* the while loop of __binary_search; the indexes count from 0 as in the
\* code, and the result is <<node_index, list_index>>
RECURSIVE VTTLCache_search(_, _, _, _)
VTTLCache_search(s, expiry, left, right) ==
    LET tail0 == Len(s.rep) - 1
        mid == (right + left) \div 2
        At(i) == s.heap[s.rep[i + 1]].expiry
    IN  IF left > right THEN <<0, 0>>
        ELSE IF At(mid) < expiry
        THEN IF mid = tail0 THEN <<mid, mid + 1>>
             ELSE IF At(mid + 1) >= expiry THEN <<mid, mid + 1>>
             ELSE VTTLCache_search(s, expiry, left + 1, right)
        ELSE IF At(mid) > expiry
        THEN IF mid = 0 THEN <<0, 0>>
             ELSE IF At(mid - 1) <= expiry THEN <<mid, mid>>
             ELSE VTTLCache_search(s, expiry, left, right - 1)
        ELSE <<mid, mid>>

VTTLCache_binary_search(s, expiry) == VTTLCache_search(s, expiry, 0, Len(s.rep) - 1)

VTTLCache_insert(s, link, expiry) ==
    Bind(VTTLCache_binary_search(s, expiry), LAMBDA found :
    Bind(IF s.rep # <<>> THEN s.rep[found[1] + 1] ELSE NULL, LAMBDA prev_link :
    Bind(List_sorted_insert(s, prev_link, link), LAMBDA s1 :
        [s1 EXCEPT !.rep = SubSeq(s.rep, 1, found[2]) \o <<link>>
                           \o SubSeq(s.rep, found[2] + 1, Len(s.rep))])))

VTTLCache_setitem(s, k, v, lifetime) ==
    Bind(TTLCache_expire(s), LAMBDA s0 :
    IF s0.exc # "none" THEN s0
    ELSE Bind(LRUCache_setitem(s0, k, v), LAMBDA s1 :
         IF s1.exc # "none" THEN s1
         ELSE IF s1.links[k] = NULL
         THEN Bind(NewLink(s1, k, time + lifetime), LAMBDA s2 :
              IF s2.exc # "none" THEN s2
              ELSE VTTLCache_insert([s2 EXCEPT !.links[k] = s2.ret[1]], s2.ret[1],
                                    time + lifetime))
         ELSE Bind(s1.links[k], LAMBDA link :
              Bind(List_remove(s1, link), LAMBDA s2 :
                  IF s2.exc # "none" THEN s2
                  ELSE Bind(Rep_remove(s2, link), LAMBDA s3 :
                       IF s3.exc # "none" THEN s3
                       ELSE VTTLCache_insert(
                                [s3 EXCEPT !.heap[link].expiry = time + lifetime],
                                link, time + lifetime))))))

VTTLCache_evict(s) ==
    Bind(LRUCache_popitem(s), LAMBDA s1 :
    IF s1.exc # "none" THEN s1
    ELSE Bind(s1.ret[1], LAMBDA key :
         IF s1.links[key] = NULL THEN Raise(s1, "KeyError")
         ELSE Bind(Rep_remove(s1, s1.links[key]), LAMBDA s2 :
              IF s2.exc # "none" THEN s2
              ELSE Bind(List_remove(s2, s2.links[key]), LAMBDA s3 :
                   IF s3.exc # "none" THEN s3
                   ELSE Return(Callback(Links_del(s3, key), key, s1.ret[2]), None)))))

(* --------------------------- BoundedTTLCache -------------------------- *)
\* random.randrange(ttl_min, ttl_max + 1) raises ValueError on an empty range
BoundedTTLCache_setitem(s, k, v) ==
    Bind(TTLCache_expire(s), LAMBDA s0 :
    IF s0.exc # "none" THEN s0
    ELSE Bind(LRUCache_setitem(s0, k, v), LAMBDA s1 :
         IF s1.exc # "none" THEN s1
         ELSE IF s1.links[k] = NULL
         THEN IF ttl_min > ttl_max THEN Raise(s1, "ValueError")
              ELSE Bind(NewLink(s1, k, time + s1.draw), LAMBDA s2 :
                   IF s2.exc # "none" THEN s2
                   ELSE List_insert([s2 EXCEPT !.links[k] = s2.ret[1]], s2.ret[1]))
         ELSE Bind(s1.links[k], LAMBDA link :
              Bind(List_remove(s1, link), LAMBDA s2 :
                  IF s2.exc # "none" THEN s2
                  ELSE IF ttl_min > ttl_max THEN Raise(s2, "ValueError")
                  ELSE List_insert([s2 EXCEPT !.heap[link].expiry = time + s2.draw], link)))))

(* -------------------------- VolatileTTLCache -------------------------- *)
RECURSIVE VolatileTTLCache_expire_from(_, _)
VolatileTTLCache_expire_from(s, curr) ==
    IF curr = NULL THEN s
    ELSE IF s.heap[curr].expiry <= now
    THEN Bind(VolatileLRUCache_delitem(s, s.heap[curr].key), LAMBDA s1 :
         IF s1.exc # "none" THEN s1
         ELSE Bind(List_remove(s1, curr), LAMBDA s2 :
              IF s2.exc # "none" THEN s2
              ELSE Bind(Links_del(s2, s2.heap[curr].key), LAMBDA s3 :
                   IF s3.exc # "none" THEN s3
                   ELSE VolatileTTLCache_expire_from(s3, s3.heap[curr].next))))
    ELSE s

VolatileTTLCache_expire(s) == VolatileTTLCache_expire_from(s, s.head)

VolatileTTLCache_setitem(s, k, v, expires) ==
    Bind(VolatileTTLCache_expire(s), LAMBDA s0 :
    IF s0.exc # "none" THEN s0
    ELSE Bind(VolatileLRUCache_setitem(s0, k, v, expires), LAMBDA s1 :
         IF s1.exc # "none" THEN s1
         ELSE IF s1.links[k] = NULL
         THEN IF expires
              THEN Bind(NewLink(s1, k, time + ttl), LAMBDA s2 :
                   IF s2.exc # "none" THEN s2
                   ELSE List_insert([s2 EXCEPT !.links[k] = s2.ret[1]], s2.ret[1]))
              ELSE s1
         ELSE Bind(s1.links[k], LAMBDA link :
              Bind(List_remove(s1, link), LAMBDA s2 :
                  IF s2.exc # "none" THEN s2
                  ELSE Bind([s2 EXCEPT !.heap[link].expiry = time + ttl], LAMBDA s3 :
                       IF expires THEN List_insert(s3, link) ELSE s3)))))

VolatileTTLCache_getitem(s, k) ==
    Bind(VolatileTTLCache_expire(s), LAMBDA s0 :
    IF s0.exc # "none" THEN s0 ELSE VolatileLRUCache_getitem(s0, k))

VolatileTTLCache_get(s, k) ==
    Bind(VolatileTTLCache_expire(s), LAMBDA s0 :
    IF s0.exc # "none" THEN s0
    ELSE Bind(GetItem(s0, k), LAMBDA s1 :
         IF s1.exc = "KeyError" THEN Return(Caught(s1), Default) ELSE s1))

\* if _key in self._links: remove the link from _list and _links
VolatileTTLCache_unlink(s, k) ==
    IF s.links[k] = NULL THEN s
    ELSE Bind(List_remove(s, s.links[k]), LAMBDA s1 :
         IF s1.exc # "none" THEN s1 ELSE Links_del(s1, k))

VolatileTTLCache_delitem(s, k) ==
    Bind(VolatileTTLCache_expire(s), LAMBDA s0 :
    IF s0.exc # "none" THEN s0
    ELSE Bind(VolatileLRUCache_delitem(s0, k), LAMBDA s1 :
         IF s1.exc # "none" THEN s1 ELSE VolatileTTLCache_unlink(s1, k)))

VolatileTTLCache_contains(s, k) ==
    Bind(VolatileTTLCache_expire(s), LAMBDA s0 :
    IF s0.exc # "none" THEN s0
    ELSE Return(s0, <<IF Has(s0.cache, k) THEN 1 ELSE 0>>))

VolatileTTLCache_len(s) ==
    Bind(VolatileTTLCache_expire(s), LAMBDA s0 :
    IF s0.exc # "none" THEN s0 ELSE Return(s0, <<Len(s0.cache)>>))

VolatileTTLCache_evict(s) ==
    Bind(VolatileLRUCache_popitem(s), LAMBDA s1 :
    IF s1.exc # "none" THEN s1
    ELSE Bind(VolatileTTLCache_unlink(s1, s1.ret[1]), LAMBDA s2 :
         IF s2.exc # "none" THEN s2
         ELSE Return(Callback(s2, s1.ret[1], s1.ret[2]), None)))

\* "_key in self._list": a _TTLLinkedList is no container, so TypeError
VolatileTTLCache_popitem(s) ==
    Bind(VolatileLRUCache_popitem(s), LAMBDA s1 :
    IF s1.exc # "none" THEN s1 ELSE Raise(s1, "TypeError"))

(* ------------------------------ dispatch ------------------------------ *)
GetItem(s, k) ==
    CASE cls = "RCache" -> RCache_getitem(s, k)
      [] cls = "LRUCache" -> LRUCache_getitem(s, k)
      [] cls = "LFUCache" -> LFUCache_getitem(s, k)
      [] cls = "RandomCache" -> RCache_getitem(s, k)
      [] cls = "VolatileCache" -> VolatileCache_getitem(s, k)
      [] cls = "VolatileLRUCache" -> VolatileLRUCache_getitem(s, k)
      [] cls = "VolatileLFUCache" -> VolatileLFUCache_getitem(s, k)
      [] cls = "VolatileRandomCache" -> VolatileCache_getitem(s, k)
      [] cls = "TTLCache" -> TTLCache_getitem(s, k)
      [] cls = "VTTLCache" -> TTLCache_getitem(s, k)
      [] cls = "BoundedTTLCache" -> TTLCache_getitem(s, k)
      [] cls = "VolatileTTLCache" -> VolatileTTLCache_getitem(s, k)

DelItem(s, k) ==
    CASE cls = "RCache" -> RCache_delitem(s, k)
      [] cls = "LRUCache" -> LRUCache_delitem(s, k)
      [] cls = "LFUCache" -> LFUCache_delitem(s, k)
      [] cls = "RandomCache" -> RandomCache_delitem(s, k)
      [] cls = "VolatileCache" -> VolatileCache_delitem(s, k)
      [] cls = "VolatileLRUCache" -> VolatileLRUCache_delitem(s, k)
      [] cls = "VolatileLFUCache" -> VolatileLFUCache_delitem(s, k)
      [] cls = "VolatileRandomCache" -> VolatileRandomCache_delitem(s, k)
      [] cls = "TTLCache" -> TTLCache_delitem(s, k)
      [] cls = "VTTLCache" -> TTLCache_delitem(s, k)
      [] cls = "BoundedTTLCache" -> TTLCache_delitem(s, k)
      [] cls = "VolatileTTLCache" -> VolatileTTLCache_delitem(s, k)

PopItem(s) ==
    CASE cls = "RCache" -> RCache_popitem(s)
      [] cls = "LRUCache" -> LRUCache_popitem(s)
      [] cls = "LFUCache" -> LFUCache_popitem(s)
      [] cls = "RandomCache" -> RandomCache_popitem(s)
      [] cls = "VolatileCache" -> VolatileCache_popitem(s)
      [] cls = "VolatileLRUCache" -> VolatileLRUCache_popitem(s)
      [] cls = "VolatileLFUCache" -> VolatileLFUCache_popitem(s)
      [] cls = "VolatileRandomCache" -> VolatileRandomCache_popitem(s)
      [] cls = "TTLCache" -> TTLCache_popitem(s)
      [] cls = "VTTLCache" -> TTLCache_popitem(s)
      [] cls = "BoundedTTLCache" -> TTLCache_popitem(s)
      [] cls = "VolatileTTLCache" -> VolatileTTLCache_popitem(s)

Evict(s) ==
    CASE cls = "RCache" -> RCache_evict(s)
      [] cls = "LRUCache" -> LRUCache_evict(s)
      [] cls = "LFUCache" -> LFUCache_evict(s)
      [] cls = "RandomCache" -> RandomCache_evict(s)
      [] cls = "VolatileCache" -> VolatileCache_evict(s)
      [] cls = "VolatileLRUCache" -> VolatileLRUCache_evict(s)
      [] cls = "VolatileLFUCache" -> VolatileLFUCache_evict(s)
      [] cls = "VolatileRandomCache" -> VolatileRandomCache_evict(s)
      [] cls = "TTLCache" -> TTLCache_evict(s)
      [] cls = "VTTLCache" -> VTTLCache_evict(s)
      [] cls = "BoundedTTLCache" -> TTLCache_evict(s)
      [] cls = "VolatileTTLCache" -> VolatileTTLCache_evict(s)

\* cache[key] = value, or cache[key, meta] = value
SetItemOf(s, k, v, flag, t) ==
    CASE cls = "RCache" -> RCache_setitem(s, k, v)
      [] cls = "LRUCache" -> LRUCache_setitem(s, k, v)
      [] cls = "LFUCache" -> LFUCache_setitem(s, k, v)
      [] cls = "RandomCache" -> RandomCache_setitem(s, k, v)
      [] cls = "VolatileCache" -> VolatileCache_setitem(s, k, v, flag)
      [] cls = "VolatileLRUCache" -> VolatileLRUCache_setitem(s, k, v, flag)
      [] cls = "VolatileLFUCache" -> VolatileLFUCache_setitem(s, k, v, flag)
      [] cls = "VolatileRandomCache" -> VolatileRandomCache_setitem(s, k, v, flag)
      [] cls = "TTLCache" -> TTLCache_setitem(s, k, v)
      [] cls = "VTTLCache" -> VTTLCache_setitem(s, k, v, t)
      [] cls = "BoundedTTLCache" -> BoundedTTLCache_setitem(s, k, v)
      [] cls = "VolatileTTLCache" -> VolatileTTLCache_setitem(s, k, v, flag)

GetOf(s, k) ==
    IF cls = "VolatileTTLCache" THEN VolatileTTLCache_get(s, k)
    ELSE IF cls \in TTLFamily THEN TTLCache_get(s, k)
    ELSE IF cls \in VolatileFamily THEN VolatileCache_get(s, k)
    ELSE RCache_get(s, k)

PopOf(s, k, withDefault) ==
    IF cls \in VolatileFamily THEN VolatileCache_pop(s, k, withDefault)
    ELSE RCache_pop(s, k, withDefault)

ContainsOf(s, k) ==
    IF cls = "VolatileTTLCache" THEN VolatileTTLCache_contains(s, k)
    ELSE IF cls \in TTLFamily THEN TTLCache_contains(s, k)
    ELSE Return(s, <<IF Has(s.cache, k) THEN 1 ELSE 0>>)

\* keys(), values() and items(): views of the map, which no class overrides
\* and no decorator wraps
RCache_keys(s) == Return(s, KeySeq(s.cache))

RCache_values(s) == Return(s, [i \in DOMAIN s.cache |-> s.cache[i][2]])

RCache_items(s) == Return(s, s.cache)

LenOf(s) ==
    IF cls = "VolatileTTLCache" THEN VolatileTTLCache_len(s)
    ELSE IF cls \in TTLFamily THEN TTLCache_len(s)
    ELSE Return(s, <<Len(s.cache)>>)

(* ------------------------------ histories ----------------------------- *)
WithoutKey(q, k) == SelectSeq(q, LAMBDA x : x # k)

LiveOnly(q, d) == SelectSeq(q, LAMBDA x : Has(d, x))

\* a successful get or set of k makes k the most recently touched live key
Touch(q, k, r) ==
    IF r.exc = "none" /\ Has(r.cache, k)
    THEN LiveOnly(<<k>> \o WithoutKey(q, k), r.cache)
    ELSE LiveOnly(q, r.cache)

TracksRecency == cls \in LRUFamily \cup {"LFUCache"}

Commit(r) ==
    /\ cache' = r.cache
    /\ size' = r.size
    /\ expires_map' = r.expires_map
    /\ lru' = r.lru
    /\ lfu' = r.lfu
    /\ node_cache' = r.node_cache
    /\ set' = r.set
    /\ idx_map' = r.idx_map
    /\ links' = r.links
    /\ heap' = r.heap
    /\ head' = r.head
    /\ tail' = r.tail
    /\ rep' = r.rep
(* ------------------------------- actions ------------------------------ *)
\* the call stored k, or found k
Succeeded(op, k, r) ==
    /\ r.exc = "none"
    /\ Has(r.cache, k)
    /\ op \in {"set", "getitem", "get"}
    /\ r.ret # Default

TracksCount == cls = "LFUCache"

History(op, k, flag, t, r) ==
    /\ touched' = IF ~TracksRecency THEN touched
                  ELSE IF Succeeded(op, k, r) THEN Touch(touched, k, r)
                  ELSE LiveOnly(touched, r.cache)
    /\ count' = IF ~TracksCount THEN count
                ELSE [j \in Keys |->
                        IF ~Has(r.cache, j) THEN 0
                        ELSE IF j = k /\ Succeeded(op, k, r)
                             THEN (IF Has(cache, k) THEN count[k] + 1 ELSE 1)
                        ELSE count[j]]
    /\ setAt' = IF cls \notin {"TTLCache", "VolatileTTLCache"} THEN setAt
                ELSE [j \in Keys |->
                        IF ~Has(r.cache, j) THEN 0
                        ELSE IF j = k /\ op = "set" /\ r.exc = "none" THEN time
                        ELSE setAt[j]]
    /\ dueAt' = IF cls # "VTTLCache" THEN dueAt
                ELSE [j \in Keys |->
                        IF ~Has(r.cache, j) THEN 0
                        ELSE IF j = k /\ op = "set" /\ r.exc = "none" THEN time + t
                        ELSE dueAt[j]]
    /\ persists' = IF cls \notin VolatileFamily THEN persists
                   ELSE [j \in Keys |->
                        IF ~Has(r.cache, j) THEN "absent"
                        ELSE IF j = k /\ op = "set" /\ (r.exc = "none" \/ ~Has(cache, k))
                             THEN (IF flag THEN "expires" ELSE "persists")
                        ELSE persists[j]]

\* one call of a public method: r is the object state the method leaves
Call(op, k, v, flag, t, r0) ==
    \E r \in {Collect(r0)} :
    /\ r.exc # "Bound"
    /\ Commit(r)
    /\ History(op, k, flag, t, r)
    /\ UNCHANGED <<config, now, time>>

\* the keys the calls are made with
KeysOf == IF cls \in TTLFamily THEN 1..NumTTLKeys ELSE Keys

\* the second component of the key of cache[key, meta] = value
Metas ==
    IF cls \in VolatileFamily THEN {<<TRUE, 0>>, <<FALSE, 0>>}
    ELSE IF cls = "VTTLCache" THEN {<<FALSE, t>> : t \in 1..MaxTtl}
    ELSE {<<FALSE, 0>>}

\* the indexes random.choice can return
Choices ==
    IF cls \in {"RandomCache", "VolatileRandomCache"} /\ set # <<>>
    THEN 1..Len(set) ELSE {1}

\* the values random.randrange(ttl_min, ttl_max + 1) can return
Draws ==
    IF cls = "BoundedTTLCache" /\ ttl_min <= ttl_max THEN ttl_min..ttl_max ELSE {0}

SetItem(k, v, flag, t, rnd, draw) ==
    Call("set", k, v, flag, t,
         Statement(SetItemOf(CurWith(rnd, draw), k, v, flag, t)))

GetItemCall(k) == Call("getitem", k, 0, FALSE, 0, GetItem(Cur, k))

Get(k) == Call("get", k, 0, FALSE, 0, GetOf(Cur, k))

DelItemCall(k) == Call("del", k, 0, FALSE, 0, Statement(DelItem(Cur, k)))

Pop(k) == Call("pop", k, 0, FALSE, 0, PopOf(Cur, k, FALSE))

PopDefault(k) == Call("popd", k, 0, FALSE, 0, PopOf(Cur, k, TRUE))

PopItemCall(rnd) == Call("popitem", 0, 0, FALSE, 0, PopItem(CurWith(rnd, 0)))

Contains(k) ==
    cls \in TTLFamily /\ Call("contains", k, 0, FALSE, 0, ContainsOf(Cur, k))

Length == cls \in TTLFamily /\ Call("len", 0, 0, FALSE, 0, LenOf(Cur))

\* a clock reading changes and the instance does not
Idle ==
    UNCHANGED <<config, cache, size, expires_map, lru, lfu, node_cache, set,
                idx_map, links, heap, head, tail, rep, touched, count, setAt,
                dueAt, persists>>

\* time passes between two calls; self._time is time.monotonic, the default
\* of the _time argument
Tick ==
    /\ now < MaxClock * ttl
    /\ cls \in TTLFamily
    /\ now' = now + 1
    /\ time' = time + 1
    /\ Idle

\* time.monotonic advances and the clock handed to __init__ does not
TickSystem ==
    /\ now < MaxClock * ttl
    /\ now' = now + 1
    /\ time' = time
    /\ Idle

\* the clock handed to __init__ advances and time.monotonic does not
TickInjected ==
    /\ time < MaxClock * ttl
    /\ time' = time + 1
    /\ now' = now
    /\ Idle

\* the fields of a cache as its constructor leaves them
Constructed ==
    /\ capacity \in 0..MaxCapacity
    /\ \E b \in (IF cls = "BoundedTTLCache" THEN {<<1, 2>>, <<2, 1>>} ELSE {<<1, 2>>}) :
          ttl_min = b[1] /\ ttl_max = b[2]
    /\ now = 0
    /\ time = 0
    /\ cache = <<>>
    /\ size = 0
    /\ expires_map = <<>>
    /\ lru = <<>>
    /\ lfu = <<>>
    /\ node_cache = [k \in Keys |-> NULL]
    /\ set = <<>>
    /\ idx_map = [k \in Keys |-> NULL]
    /\ links = [k \in Keys |-> NULL]
    /\ heap = [i \in 1..MaxLinks |-> FreeLink]
    /\ head = NULL
    /\ tail = NULL
    /\ rep = <<>>
    /\ touched = <<>>
    /\ count = [k \in Keys |-> 0]
    /\ setAt = [k \in Keys |-> 0]
    /\ dueAt = [k \in Keys |-> 0]
    /\ persists = [k \in Keys |-> "absent"]

Init ==
    /\ cls \in Classes
    /\ ttl = 1
    /\ Constructed

\* the calls of every class
NextCalls ==
    \/ \E k \in KeysOf, m \in Metas, rnd \in Choices, draw \in Draws :
          \E v \in ValuesOf(k) : SetItem(k, v, m[1], m[2], rnd, draw)
    \/ \E k \in KeysOf : GetItemCall(k)
    \/ \E k \in KeysOf : Get(k)
    \/ \E k \in KeysOf : DelItemCall(k)
    \/ \E k \in KeysOf : Pop(k)
    \/ \E k \in KeysOf : PopDefault(k)
    \/ \E rnd \in Choices : PopItemCall(rnd)

Next ==
    \/ NextCalls
    \/ \E k \in KeysOf : Contains(k)
    \/ Length
    \/ Tick

\* an instance of any of the twelve classes
Spec == Init /\ [][Next]_vars

\* an instance of a class without a clock
PlainFamily == {"RCache", "LRUCache", "LFUCache", "RandomCache"}

InitPlain == Init /\ cls \in PlainFamily

SpecPlain == InitPlain /\ [][NextCalls]_vars

\* an instance of TTLCache
InitTTL == Init /\ cls = "TTLCache"

SpecTTL == InitTTL /\ [][Next]_vars

\* an instance of LRUCache or of TTLCache, which is built on it
InitRecency == Init /\ cls \in {"LRUCache", "TTLCache"}

SpecRecency == InitRecency /\ [][Next]_vars

\* a TTLCache whose keys live MaxTtl ticks
InitLongLived ==
    /\ cls = "TTLCache"
    /\ ttl = MaxTtl
    /\ Constructed

SpecLongLived == InitLongLived /\ [][Next]_vars

\* a TTLCache built with a clock of its own as _time
NextInjected ==
    \/ NextCalls
    \/ \E k \in KeysOf : Contains(k)
    \/ Length
    \/ TickSystem
    \/ TickInjected

SpecInjected == InitTTL /\ [][NextInjected]_vars

(* ------------------------------ equality ------------------------------ *)
\* dict.__eq__: the same keys with the same values, in any order
DictEq(d, e) ==
    {<<d[i][1], d[i][2]>> : i \in DOMAIN d} = {<<e[i][1], e[i][2]>> : i \in DOMAIN e}

\* self.__dict__ == obj.__dict__ for two instances a and b of the class, of
\* the same capacity and without callback.  The dicts are compared as dicts,
\* the OrderedDict _lru and the list set in order, and the objects of
\* LFULinkedList and _TTLLinkedList, which define no __eq__, by identity: the
\* lists of two instances are never the same object.
AttributesEq(a, b) ==
    /\ DictEq(a.cache, b.cache)
    /\ a.size = b.size
    /\ cls \in VolatileFamily => DictEq(a.expires_map, b.expires_map)
    /\ cls \in LRUFamily \cup {"VolatileLRUCache", "VolatileTTLCache"} => a.lru = b.lru
    /\ cls \in {"RandomCache", "VolatileRandomCache"} =>
           a.set = b.set /\ a.idx_map = b.idx_map
    /\ cls \notin {"LFUCache", "VolatileLFUCache"} \cup TTLFamily

RCache_eq(a, b) == AttributesEq(a, b)

VolatileCache_eq(a, b) == AttributesEq(a, b)

\* a == b
EqOf(a, b) ==
    IF cls \in VolatileFamily THEN VolatileCache_eq(a, b) ELSE RCache_eq(a, b)

(* ----------------------- calls in the current state ------------------- *)
\* Each call the instance can be given in the current state, with the object
\* state the call leaves.  A call whose outcome is "Bound" is one the bounded
\* model does not take.
Sets ==
    UNION {{[key |-> k, val |-> v, flag |-> m[1], ttl |-> m[2],
             res |-> Statement(SetItemOf(CurWith(rnd, draw), k, v, m[1], m[2]))] :
               v \in ValuesOf(k), m \in Metas, rnd \in Choices, draw \in Draws} :
           k \in KeysOf}

Taken(S) == {c \in S : c.res.exc # "Bound"}

\* the call returned v, or is one the bounded model does not take
ReturnsOrBound(r, v) == r.exc = "Bound" \/ (r.exc = "none" /\ r.ret = v)

\* the keys the callback was given, in order
Evicted(r) == [i \in DOMAIN r.calls |-> r.calls[i][1]]

\* the keys repeated popitem() calls return, in order, until one raises
RECURSIVE Drain(_)
Drain(s) ==
    Bind(PopItem(s), LAMBDA r :
    IF r.exc # "none" \/ Len(r.ret) # 2 THEN <<>>
    ELSE <<r.ret[1]>> \o Drain(Statement(r)))

Reverse(q) == [i \in DOMAIN q |-> q[Len(q) + 1 - i]]

(* -------------------------------- C1 ---------------------------------- *)
\* C1: in every class, an instance of capacity >= 1 never stores more keys
\* than its capacity, whatever calls were made and whichever of them raised.
C1_LenWithinCapacity == capacity >= 1 => Len(cache) <= capacity

\* a full cache in which the set of one more key evicts and stays full
C1_Witness ==
    /\ capacity >= 1
    /\ Len(cache) = capacity
    /\ \E c \in Taken(Sets) :
          /\ ~Has(cache, c.key)
          /\ c.res.exc = "none"
          /\ Len(c.res.calls) = 1
          /\ Has(c.res.cache, c.key)
          /\ Len(c.res.cache) = capacity

(* -------------------------------- C2 ---------------------------------- *)
\* C2: in LRUCache, popitem and capacity evictions remove the live key whose
\* most recent successful get or set is the oldest: repeated popitem calls
\* return the live keys oldest touch first, so a key just got or set is
\* the last to go, and a set that evicts hands the callback the key of the
\* oldest touch.
C2_LRUVictimIsOldestTouch ==
    cls = "LRUCache" =>
        /\ Drain(Cur) = Reverse(touched)
        /\ \A c \in Taken(Sets) :
              (capacity >= 1 /\ ~Has(cache, c.key) /\ Len(cache) = capacity)
                 => Evicted(c.res) = <<touched[Len(touched)]>>

\* two live keys, the one inserted first read after the other was set: the
\* victim is the key inserted last
C2_Witness ==
    /\ cls = "LRUCache"
    /\ Len(cache) = 2
    /\ touched = KeySeq(cache)
    /\ Drain(Cur) = <<cache[2][1], cache[1][1]>>
    /\ \E c \in Taken(Sets) : ~Has(cache, c.key) /\ Evicted(c.res) = <<cache[2][1]>>

(* -------------------------------- C3 ---------------------------------- *)
\* the keys of q whose access count is n or more, smallest count first, in
\* the order of q within one count
RECURSIVE ByCount(_, _)
ByCount(q, n) ==
    IF n > MaxFreq THEN <<>>
    ELSE SelectSeq(q, LAMBDA k : count[k] = n) \o ByCount(q, n + 1)

\* C3: in LFUCache, popitem and capacity evictions remove a live key of the
\* smallest access count (1 at insertion, one more for each later get or
\* overwriting set), and among the keys of that count the one that reached
\* it first: repeated popitem calls return the live keys by count, and within
\* a count by the time the count was reached; a set that evicts hands the
\* callback the first of them.
C3_LFUVictimIsLeastCounted ==
    cls = "LFUCache" =>
        /\ Drain(Cur) = ByCount(Reverse(touched), 1)
        /\ \A c \in Taken(Sets) :
              (capacity >= 1 /\ ~Has(cache, c.key) /\ Len(cache) = capacity)
                 => Evicted(c.res) = <<ByCount(Reverse(touched), 1)[1]>>

\* two live keys of count 2, the one inserted last having reached 2 first: it
\* is the victim, before the key inserted first
C3_Witness ==
    /\ cls = "LFUCache"
    /\ Len(cache) = 2
    /\ count[cache[1][1]] = 2
    /\ count[cache[2][1]] = 2
    /\ touched = KeySeq(cache)
    /\ Drain(Cur) = <<cache[2][1], cache[1][1]>>
    /\ \E c \in Taken(Sets) : ~Has(cache, c.key) /\ Evicted(c.res) = <<cache[2][1]>>

(* -------------------------------- C4 ---------------------------------- *)
\* the live keys whose most recent set is at least ttl in the past
Overdue == {k \in KeysOf : Has(cache, k) /\ now - setAt[k] >= ttl}

\* get(k) returns the default and k in cache is False
ReadsAsExpired(k) ==
    /\ Bind(GetOf(Cur, k), LAMBDA r : r.exc = "none" /\ r.ret = Default)
    /\ Bind(ContainsOf(Cur, k), LAMBDA r : r.exc = "none" /\ r.ret = <<0>>)

\* C4: in a TTLCache, once ttl has elapsed since the most recent set of a
\* key, get of the key returns the default without raising and the key is
\* not contained, whatever calls came before.
C4_ExpiredKeyReadsAsAbsent ==
    cls = "TTLCache" => \A k \in Overdue : ReadsAsExpired(k)

(* -------------------------------- C5 ---------------------------------- *)
\* the live keys whose most recent set was made with expires=False
Persistent == {k \in Keys : Has(cache, k) /\ persists[k] = "persists"}

\* the keys of q, as a set
Range(q) == {q[i] : i \in DOMAIN q}

\* C5: in a volatile cache, no set evicts a live key whose most recent set
\* marked it persistent.
C5_PersistentKeyNotEvicted ==
    cls \in VolatileFamily =>
        \A c \in Taken(Sets) : Range(Evicted(c.res)) \cap Persistent = {}

(* -------------------------------- C6 ---------------------------------- *)
\* size >= capacity and every live key was last set with expires=False
FullOfPersistent ==
    /\ size >= capacity
    /\ \A k \in Keys : Has(cache, k) => persists[k] = "persists"

\* C6: in a volatile cache that is full and holds no non-persistent key, the
\* set of a new key returns without error and leaves the stored keys, their
\* values and len as they were.
C6_WriteDiscardedWhenNoCandidate ==
    (cls \in VolatileFamily /\ FullOfPersistent) =>
        \A c \in Taken(Sets) :
            ~Has(cache, c.key) =>
                /\ c.res.exc = "none"
                /\ c.res.cache = cache
                /\ LenOf(c.res).ret = LenOf(Cur).ret

(* -------------------------------- C7 ---------------------------------- *)
\* C7: in a volatile cache of capacity >= 1, no set raises KeyError.
C7_SetNeverRaisesKeyError ==
    (cls \in VolatileFamily /\ capacity >= 1) =>
        \A c \in Taken(Sets) : c.res.exc # "KeyError"

(* -------------------------------- C8 ---------------------------------- *)
\* the classes the claim names
NonVolatile == {"RCache", "LRUCache", "LFUCache", "RandomCache", "TTLCache"}

\* no link of the expiry chain is due
NoKeyExpired == \A i \in DOMAIN heap : heap[i].key # NULL => heap[i].expiry > now

\* a full cache of one of the named classes, none of its keys expired
FullNonVolatile ==
    /\ cls \in NonVolatile
    /\ Len(cache) = capacity
    /\ cls = "TTLCache" => NoKeyExpired

\* the set of a new key on a full cache: one key evicted, the new key admitted
AdmitsByEvictingOne(c) ==
    /\ c.res.exc = "none"
    /\ Len(Evicted(c.res)) = 1
    /\ Has(cache, Evicted(c.res)[1])
    /\ DictKeys(c.res.cache) = (DictKeys(cache) \ {Evicted(c.res)[1]}) \cup {c.key}
    /\ LenOf(c.res).ret = <<capacity>>
    /\ Bind(GetItem(c.res, c.key), LAMBDA r : ReturnsOrBound(r, <<c.val>>))

LiveKeys ==
    {k \in Keys : Bind(ContainsOf(Cur, k), LAMBDA r : r.exc = "none" /\ r.ret = <<1>>)}

\* the set of a live key: the key reads back as the value given, len is what
\* it was and every key that was live is still stored
Overwrites(c) ==
    /\ c.res.exc = "none"
    /\ Bind(GetOf(c.res, c.key), LAMBDA r : ReturnsOrBound(r, <<c.val>>))
    /\ LenOf(c.res).ret = LenOf(Cur).ret
    /\ LiveKeys \subseteq DictKeys(c.res.cache)

\* C9: in every class, the set of a key that is live overwrites its value,
\* leaves len unchanged and removes no other key.
C9_SetOfLiveKeyOverwrites ==
    \A c \in Taken(Sets) : c.key \in LiveKeys => Overwrites(c)

(* -------------------------------- C10 --------------------------------- *)
\* the keys that are not in the map, and those "k in cache" is False for
AbsentKeys ==
    {k \in KeysOf :
        \/ ~Has(cache, k)
        \/ Bind(ContainsOf(Cur, k), LAMBDA r : r.exc = "none" /\ r.ret = <<0>>)}

\* the fields of the instance: the map, the size counter and the ledgers
Fields(s) ==
    Bind(Collect(s), LAMBDA r :
        <<r.cache, r.size, r.expires_map, r.lru, r.lfu, r.node_cache, r.set,
          r.idx_map, r.links, r.heap, r.head, r.tail, r.rep>>)

\* the call left the instance as the expiry sweep alone leaves it
OnlySwept(r) == Fields(r) = Fields(LenOf(Cur))

\* the five calls on an absent key
AbsentKeyCalls(k) ==
    /\ Bind(GetItem(Cur, k), LAMBDA r : r.exc = "KeyError" /\ OnlySwept(r))
    /\ Bind(DelItem(Cur, k), LAMBDA r : r.exc = "KeyError" /\ OnlySwept(r))
    /\ Bind(PopOf(Cur, k, FALSE), LAMBDA r : r.exc = "KeyError" /\ OnlySwept(r))
    /\ Bind(GetOf(Cur, k), LAMBDA r : r.exc = "none" /\ r.ret = Default /\ OnlySwept(r))
    /\ Bind(PopOf(Cur, k, TRUE), LAMBDA r : r.exc = "none" /\ r.ret = Default /\ OnlySwept(r))

\* C10: in every class, for an absent key, indexed read, delete and pop raise
\* KeyError, get and pop with a default return the default, and none of the
\* calls changes the instance beyond the removal of expired entries.
C10_AbsentKeyCallsChangeNothing ==
    \A k \in AbsentKeys : AbsentKeyCalls(k)

(* -------------------------------- C11 --------------------------------- *)
\* the keys a call that left r removed from the map, those the expiry sweep
\* removes aside
RemovedBy(r) == DictKeys(LenOf(Cur).cache) \ DictKeys(r.cache)

\* every callback of the call was given a key the cache stored, with the
\* value stored for it, and the key is gone; no key was given twice; and
\* every key the call removed was given to the callback
CallbackPerEviction(r) ==
    /\ \A i \in DOMAIN r.calls :
          /\ Has(cache, r.calls[i][1])
          /\ r.calls[i][2] = Lookup(cache, r.calls[i][1])
          /\ ~Has(r.cache, r.calls[i][1])
    /\ \A i, j \in DOMAIN r.calls : r.calls[i][1] = r.calls[j][1] => i = j
    /\ RemovedBy(r) \subseteq Range(Evicted(r))

\* C11: in every class, a set that evicts for capacity invokes the callback
\* once for each evicted key, with the key and the value stored for it, and
\* never for a key that stays in the cache.
C11_CallbackOncePerEviction ==
    \A c \in Taken(Sets) : CallbackPerEviction(c.res)

(* -------------------------------- C12 --------------------------------- *)
\* the calls other than set, in the current state
OtherCalls ==
    {LenOf(Cur), PopItem(Cur)}
        \cup {GetItem(Cur, k) : k \in KeysOf} \cup {GetOf(Cur, k) : k \in KeysOf}
        \cup {DelItem(Cur, k) : k \in KeysOf} \cup {ContainsOf(Cur, k) : k \in KeysOf}
        \cup {PopOf(Cur, k, d) : k \in KeysOf, d \in BOOLEAN}

\* the keys the expiry sweep removes from the map in the current state
Swept == DictKeys(cache) \ DictKeys(LenOf(Cur).cache)

\* C12: in the four classes with a clock, no call other than a set invokes
\* the callback, and a set invokes it for no key the expiry sweep removed.
C12_CallbackOnlyOnCapacityEviction ==
    cls \in TTLFamily =>
        /\ \A r \in OtherCalls : r.calls = <<>>
        /\ \A c \in Taken(Sets) : Range(Evicted(c.res)) \cap Swept = {}

\* a key is due, the sweep of a get and of a set removes it, and neither
\* invokes the callback
C12_Witness ==
    /\ cls \in TTLFamily
    /\ Swept # {}
    /\ \E k \in Swept : Bind(GetOf(Cur, k), LAMBDA r : r.exc = "none" /\ r.calls = <<>>)
    /\ \E c \in Taken(Sets) : c.res.exc = "none" /\ Evicted(c.res) = <<>>

(* -------------------------------- C13 --------------------------------- *)
\* k is in one of the ledgers kept beside the map
InLedger(s, k) ==
    \/ Has(s.lru, k)
    \/ Has(s.expires_map, k)
    \/ \E i \in DOMAIN s.lfu : k \in Range(s.lfu[i].items)
    \/ k \in Range(s.set)
    \/ s.links[k] # NULL

\* the popitem() calls of the current state, one for each draw of the
\* random classes
PopItems == {PopItem(CurWith(rnd, 0)) : rnd \in Choices}

\* the cache holds an entry popitem may remove: any entry, and in a volatile
\* class one whose most recent set was non-persistent
HoldsEligible ==
    IF cls \in VolatileFamily
    THEN \E k \in Keys : Has(cache, k) /\ persists[k] = "expires"
    ELSE cache # <<>>

\* the call returned a stored (key, value) pair and removed that entry, and
\* no other, from the map and from the ledgers
PopsOne(r) ==
    /\ r.exc = "none"
    /\ Len(r.ret) = 2
    /\ Has(cache, r.ret[1])
    /\ r.ret[2] = Lookup(cache, r.ret[1])
    /\ r.cache = Remove(cache, r.ret[1])
    /\ ~InLedger(r, r.ret[1])

\* C13: in every class, popitem on a cache that holds an eligible entry
\* removes exactly one entry and returns its (key, value) pair, and popitem
\* on an empty cache raises KeyError and changes nothing.
C13_PopItemRemovesOne ==
    \A r \in PopItems :
        /\ HoldsEligible => (r.exc = "Bound" \/ PopsOne(r))
        /\ cache = <<>> => (r.exc = "KeyError" /\ Fields(r) = Fields(Cur))

(* -------------------------------- C14 --------------------------------- *)
\* every call the instance can be given in the current state
AllCalls == {c.res : c \in Taken(Sets)} \cup OtherCalls \cup PopItems

\* C14: in every class, a call that raises leaves the map, the size counter
\* and the ledgers as they were, the removal of expired entries aside.
C14_RaisingCallChangesNothing ==
    \A r \in AllCalls : r.exc \notin {"none", "Bound"} => OnlySwept(r)

(* -------------------------------- C15 --------------------------------- *)
\* len(cache) returns, and what it returns is the size counter, the number
\* of entries of the map and the number of keys that are contained
SizeIsLen(r) ==
    /\ r.exc = "none"
    /\ r.ret = <<r.size>>
    /\ r.size = Len(r.cache)
    /\ r.size = Cardinality(LiveKeys)

\* C15: in every class and every reachable state, the size counter is the
\* number of entries of the map, which is len(cache) and the number of keys
\* that are contained.
C15_SizeCountsTheMap ==
    /\ size = Len(cache)
    /\ SizeIsLen(LenOf(Cur))

(* -------------------------------- C16 --------------------------------- *)
\* the errors a set is claimed to fail with, for the way the instance was
\* constructed
ConfigurationErrors ==
    (IF capacity <= 0 THEN {"KeyError"} ELSE {})
        \cup (IF cls = "BoundedTTLCache" /\ ttl_min > ttl_max THEN {"ValueError"} ELSE {})

\* C16: an instance constructed with a non-positive capacity, or a
\* BoundedTTLCache constructed with ttl_min > ttl_max, is empty in every
\* reachable state, and every set on it fails with KeyError or ValueError
\* respectively and leaves it empty.
C16_MisconfiguredCacheStaysEmpty ==
    ConfigurationErrors # {} =>
        /\ cache = <<>>
        /\ \A c \in Taken(Sets) :
              c.res.exc \in ConfigurationErrors /\ c.res.cache = <<>>

(* -------------------------------- C17 --------------------------------- *)
\* C17: in every class, two instances of the same capacity, without
\* callback, that were given the same calls compare equal, and an instance
\* whose map or ledgers differ from those of another compares unequal to it.
\* The second instance is one in the current state; the differing one was
\* given one call more.
C17_EqualIffSameState ==
    /\ EqOf(Cur, Cur)
    /\ \A r \in AllCalls :
          (r.exc # "Bound" /\ Fields(r) # Fields(Cur)) => ~EqOf(Cur, r)

(* -------------------------------- C18 --------------------------------- *)
\* key 1 was last set evictable (expires=True, the persists == false of the
\* data model), and the cache is full of key 1 and keys last set persistent
\* (expires=False), at least one of them
OneEvictableAmongPersistent ==
    /\ cls \in VolatileFamily
    /\ Len(cache) = capacity
    /\ Has(cache, 1) /\ persists[1] = "expires"
    /\ \E k \in Keys \ {1} : Has(cache, k)
    /\ \A k \in Keys \ {1} : Has(cache, k) => persists[k] = "persists"

\* the calls that force an eviction: the set of a new key, and _evict()
ForcedEvictions ==
    {c.res : c \in {d \in Taken(Sets) : ~Has(cache, d.key)}} \cup {Evict(Cur)}

\* C18: in a volatile cache filled to capacity with key 1, set evictable, and
\* persistent keys, forcing an eviction never removes key 1.
C18_EvictableKeyOneIsKept ==
    OneEvictableAmongPersistent => \A r \in ForcedEvictions : Has(r.cache, 1)

(* -------------------------------- C19 --------------------------------- *)
\* the links met from link id by next pointers, at most n of them
RECURSIVE ChainFrom(_, _)
ChainFrom(id, n) ==
    IF id = NULL \/ n = 0 THEN <<>>
    ELSE <<id>> \o ChainFrom(heap[id].next, n - 1)

\* the chain from the head; a chain longer than the number of links has a cycle
Chain == ChainFrom(head, MaxLinks + 1)

\* the keys of the links of the chain, in order
ChainKeys == [i \in DOMAIN Chain |-> heap[Chain[i]].key]

\* C19: in a TTLCache, in every reachable state, the expiry chain from the
\* head has no cycle and holds one link for each key of the map and no other,
\* _links has exactly the keys of the map, and the head is a key no key of
\* the map was set before.
C19_ChainHoldsTheLiveKeys ==
    cls = "TTLCache" =>
        /\ Len(Chain) <= MaxLinks
        /\ \A i, j \in DOMAIN Chain : Chain[i] = Chain[j] => i = j
        /\ \A i, j \in DOMAIN Chain : ChainKeys[i] = ChainKeys[j] => i = j
        /\ Range(ChainKeys) = DictKeys(cache)
        /\ {k \in Keys : links[k] # NULL} = DictKeys(cache)
        /\ \A k \in DictKeys(cache) : links[k] \in Range(Chain) /\ heap[links[k]].key = k
        /\ cache # <<>> => \A k \in DictKeys(cache) : setAt[ChainKeys[1]] <= setAt[k]

(* -------------------------------- C20 --------------------------------- *)
\* the live keys whose most recent set was non-persistent (expires=True)
Evictable == {k \in Keys : Has(cache, k) /\ persists[k] = "expires"}

\* the get and set calls of the current state on a key last set persistent,
\* the sets with expires=False
PersistentKeyCalls ==
    {GetItem(Cur, k) : k \in Persistent} \cup {GetOf(Cur, k) : k \in Persistent}
        \cup {c.res : c \in {d \in Taken(Sets) : d.key \in Persistent /\ ~d.flag}}

\* C20: in VolatileLRUCache and VolatileTTLCache, in every reachable state,
\* the ledger _lru holds exactly the live keys whose most recent set was
\* non-persistent, each once, and a get or set of a persistent key leaves the
\* ledger as it is.
C20_LedgerHoldsTheEvictableKeys ==
    cls \in {"VolatileLRUCache", "VolatileTTLCache"} =>
        /\ DictKeys(lru) = Evictable
        /\ \A i, j \in DOMAIN lru : lru[i][1] = lru[j][1] => i = j
        /\ \A r \in PersistentKeyCalls : r.exc = "Bound" \/ LenOf(r).lru = LenOf(Cur).lru

(* -------------------------------- C21 --------------------------------- *)
\* the keys of the ledger are the keys of the map, each once
LedgerIsTheMap(s) ==
    /\ DictKeys(s.lru) = DictKeys(s.cache)
    /\ \A i, j \in DOMAIN s.lru : s.lru[i][1] = s.lru[j][1] => i = j

\* C21: in LRUCache and TTLCache, in every reachable state, the recency ledger
\* _lru holds exactly the keys of the map, each once.
C21_LedgerHoldsTheMapKeys ==
    cls \in {"LRUCache", "TTLCache"} => LedgerIsTheMap(Cur)

\* a TTLCache after the clock advanced, holding two keys set since
C21_Witness ==
    /\ cls = "TTLCache"
    /\ now = 1
    /\ Len(lru) = 2
    /\ \A k \in DictKeys(cache) : setAt[k] = 1
    /\ LedgerIsTheMap(Cur)

(* -------------------------------- C22 --------------------------------- *)
\* the keys of the map whose most recent set, non-persistent in a
\* VolatileTTLCache, is at least ttl in the past: their expiry time is at or
\* before the clock
Due ==
    {k \in KeysOf : /\ Has(cache, k)
                    /\ cls = "VolatileTTLCache" => persists[k] = "expires"
                    /\ setAt[k] + ttl <= now}

\* the calls the expire decorator wraps, the sets aside, in the current
\* state: indexed read, get, delete, contains and len (iter is wrapped as
\* len is)
SweepingCalls ==
    {LenOf(Cur)}
        \cup {GetItem(Cur, k) : k \in KeysOf} \cup {GetOf(Cur, k) : k \in KeysOf}
        \cup {DelItem(Cur, k) : k \in KeysOf} \cup {ContainsOf(Cur, k) : k \in KeysOf}

\* C22: in TTLCache and VolatileTTLCache, a set, indexed read, get, delete,
\* contains or len that returns leaves no key in the map whose expiry is at
\* or before the clock (the key a set stores aside), and when every key of
\* the map has expired len is 0.
C22_NoExpiredKeyAfterACall ==
    cls \in {"TTLCache", "VolatileTTLCache"} =>
        /\ \A r \in SweepingCalls : r.exc = "none" => DictKeys(r.cache) \cap Due = {}
        /\ \A c \in Taken(Sets) :
              c.res.exc = "none" => (DictKeys(c.res.cache) \ {c.key}) \cap Due = {}
        /\ (cache # <<>> /\ Due = DictKeys(cache)) =>
               Bind(LenOf(Cur), LAMBDA r : r.exc = "none" /\ r.ret = <<0>>)

(* -------------------------------- C23 --------------------------------- *)
\* the keys of the map set less than ttl ago
Fresh == {k \in KeysOf : Has(cache, k) /\ now - setAt[k] < ttl}

\* the calls on keys other than k that neither delete, pop nor evict k
CallsOnOthers(k) ==
    {LenOf(Cur)}
        \cup {GetItem(Cur, j) : j \in KeysOf \ {k}} \cup {GetOf(Cur, j) : j \in KeysOf \ {k}}
        \cup {DelItem(Cur, j) : j \in KeysOf \ {k}} \cup {ContainsOf(Cur, j) : j \in KeysOf \ {k}}
        \cup {PopOf(Cur, j, d) : j \in KeysOf \ {k}, d \in BOOLEAN}

\* C23: in a TTLCache a key set less than ttl ago, and not deleted, popped or
\* evicted since, is not removed by the sweep, is kept with its value by
\* every call on another key, and get returns the value of that set.
C23_KeyKeptUntilItsExpiry ==
    cls = "TTLCache" =>
        \A k \in Fresh :
            /\ Has(TTLCache_expire(Cur).cache, k)
            /\ \A r \in CallsOnOthers(k) :
                   Has(r.cache, k) /\ Lookup(r.cache, k) = Lookup(cache, k)
            /\ Bind(GetOf(Cur, k), LAMBDA r : r.exc = "none" /\ r.ret = <<Lookup(cache, k)>>)

(* -------------------------------- C24 --------------------------------- *)
\* the links met in state s from link id by next pointers, at most n of them
RECURSIVE LinksFrom(_, _, _)
LinksFrom(s, id, n) ==
    IF id = NULL \/ n = 0 THEN <<>>
    ELSE <<id>> \o LinksFrom(s, s.heap[id].next, n - 1)

\* the set in state r made the link of key k the last of the chain, with
\* expiry now + ttl
SetLast(r, k) ==
    /\ r.links[k] # NULL
    /\ r.heap[r.links[k]].expiry = now + ttl
    /\ r.tail = r.links[k]
    /\ Bind(LinksFrom(r, r.head, MaxLinks + 1), LAMBDA ch :
           /\ Len(ch) <= MaxLinks
           /\ ch # <<>> /\ ch[Len(ch)] = r.links[k])

\* C24: in a TTLCache, in every reachable state, the links met from the head
\* by next are in non-decreasing expiry order and the head is the link of a
\* key of the map that no key of the map expires before; a set of a key of
\* the map that returns gives its link the expiry now + ttl and makes it the
\* last link of the chain.
C24_ChainInExpiryOrder ==
    cls = "TTLCache" =>
        /\ \A i, j \in DOMAIN Chain :
               i < j => heap[Chain[i]].expiry <= heap[Chain[j]].expiry
        /\ cache # <<>> =>
               /\ head # NULL
               /\ Has(cache, heap[head].key)
               /\ \A k \in DictKeys(cache) : heap[head].expiry <= setAt[k] + ttl
        /\ \A c \in Taken(Sets) :
               (Has(cache, c.key) /\ c.res.exc = "none") => SetLast(c.res, c.key)

(* -------------------------------- C25 --------------------------------- *)
\* C25: in a VTTLCache, in every reachable state, following next from the
\* head ends, meets the link of every key of the map exactly once, and meets
\* the links in non-decreasing expiry order.
C25_SortedChainHoldsEveryKey ==
    cls = "VTTLCache" =>
        /\ Len(Chain) <= MaxLinks
        /\ \A k \in DictKeys(cache) :
               /\ links[k] # NULL
               /\ heap[links[k]].key = k
               /\ Cardinality({i \in DOMAIN Chain : Chain[i] = links[k]}) = 1
        /\ \A i, j \in DOMAIN Chain :
               i < j => heap[Chain[i]].expiry <= heap[Chain[j]].expiry

(* -------------------------------- C26 --------------------------------- *)
\* C26: in a VTTLCache, in every reachable state, get(k) of a key of the map
\* returns its value while the clock is before the expiry of the key's most
\* recent set (the clock then plus the key's own ttl), and returns the
\* default from then on, whatever the other keys are.
C26_KeyLivesItsOwnTtl ==
    cls = "VTTLCache" =>
        \A k \in DictKeys(cache) :
            Bind(GetOf(Cur, k), LAMBDA r :
                /\ r.exc = "none"
                /\ r.ret = (IF now < dueAt[k] THEN <<Lookup(cache, k)>> ELSE Default))

(* -------------------------------- C27 --------------------------------- *)
\* the sets in the current state of a key not in the map, with the expiry of
\* the link of a key the set leaves in the map
EqualExpirySets ==
    {c \in Taken(Sets) :
        /\ ~Has(cache, c.key)
        /\ c.res.exc = "none"
        /\ Has(c.res.cache, c.key)
        /\ \E j \in DictKeys(c.res.cache) \ {c.key} :
              /\ Has(cache, j)
              /\ links[j] # NULL
              /\ heap[links[j]].expiry = now + c.ttl}

\* in state r the link of key k follows a link of its own expiry, in the
\* sequence of links ch
AfterItsEqual(r, ch, k) ==
    \E i \in DOMAIN ch :
        /\ i > 1
        /\ ch[i] = r.links[k]
        /\ r.heap[ch[i - 1]].expiry = r.heap[ch[i]].expiry

\* C27: in a VTTLCache, in every reachable state, the parallel array lists
\* the links of the chain from the head, in the order of the chain; a set
\* that adds a link whose expiry an existing link has places the new link
\* right after a link of that expiry in the chain and in the array.
C27_ArrayMirrorsTheChain ==
    cls = "VTTLCache" =>
        /\ rep = Chain
        /\ \A c \in EqualExpirySets :
               /\ AfterItsEqual(c.res, c.res.rep, c.key)
               /\ AfterItsEqual(c.res, LinksFrom(c.res, c.res.head, MaxLinks + 1), c.key)

(* -------------------------------- C28 --------------------------------- *)
\* no key of the map has reached the expiry of its most recent set
NoneExpired ==
    \A k \in DictKeys(cache) :
        now < (IF cls = "VTTLCache" THEN dueAt[k] ELSE setAt[k] + ttl)

\* the sets in the current state of a key not in the map, the map being full
\* of unexpired keys
FullSets ==
    {c \in Taken(Sets) :
        capacity >= 1 /\ ~Has(cache, c.key) /\ Len(cache) = capacity /\ NoneExpired}

\* state r holds no link for key k, neither in _links nor in the chain
Unlinked(r, k) ==
    /\ r.links[k] = NULL
    /\ Bind(LinksFrom(r, r.head, MaxLinks + 1), LAMBDA ch :
           \A i \in DOMAIN ch : r.heap[ch[i]].key # k)

\* C28: in TTLCache and VTTLCache, a set of a new key on a cache full of
\* unexpired keys removes the key whose most recent successful get or set is
\* the oldest and no other, and leaves no link for it in _links or in the
\* chain.
C28_FullSetEvictsTheOldestTouch ==
    cls \in {"TTLCache", "VTTLCache"} =>
        \A c \in FullSets :
            /\ c.res.exc = "none"
            /\ DictKeys(cache) \ DictKeys(c.res.cache) = {touched[Len(touched)]}
            /\ Unlinked(c.res, touched[Len(touched)])

(* -------------------------------- C29 --------------------------------- *)
\* the calls in the current state that sweep and do not name key k
SweepsAround(k) ==
    {LenOf(Cur)}
        \cup {ContainsOf(Cur, j) : j \in KeysOf} \cup {GetOf(Cur, j) : j \in KeysOf \ {k}}

\* C29: in a VolatileTTLCache, a key of the map whose most recent set was
\* persistent (expires=False) is left in the map, with its value, by the
\* expiry sweep of every call, whatever was done to the key before.
C29_SweepSparesPersistentKeys ==
    cls = "VolatileTTLCache" =>
        \A k \in Persistent : \A r \in SweepsAround(k) :
            Has(r.cache, k) /\ Lookup(r.cache, k) = Lookup(cache, k)

(* -------------------------------- C30 --------------------------------- *)
\* the ledgers of evictable keys of state s
Ledgers(s) == <<s.expires_map, s.lru, s.lfu, s.node_cache, s.set, s.idx_map>>

\* C30: in every volatile class, the delete of a key of the map whose most
\* recent set was persistent (expires=False) returns, removes the key, and
\* leaves the other keys with their values and the ledgers of evictable keys
\* as the expiry sweep alone leaves them.
C30_DeleteOfPersistentKey ==
    cls \in VolatileFamily =>
        \A k \in Persistent :
            Bind(DelItem(Cur, k), LAMBDA r :
                /\ r.exc = "none"
                /\ r.cache = Remove(LenOf(Cur).cache, k)
                /\ Ledgers(r) = Ledgers(LenOf(Cur)))

(* -------------------------------- C31 --------------------------------- *)
\* the positions of the frequency nodes whose items hold key k
BucketsOf(k) == {p \in DOMAIN lfu : ItemsHas(lfu[p].items, k)}

\* the keys the frequency list is to hold: the keys of the map, in the
\* volatile class those last set with expires=True
Counted == IF cls = "LFUCache" THEN DictKeys(cache) ELSE Evictable

\* C31: in LFUCache and VolatileLFUCache, in every reachable state, the
\* frequency nodes together hold exactly the keys of the map (in the volatile
\* class those whose most recent set was non-persistent), each key in one
\* node and once, and node_cache[key] is that node.
C31_BucketsHoldTheCountedKeys ==
    cls \in {"LFUCache", "VolatileLFUCache"} =>
        /\ {k \in Keys : BucketsOf(k) # {}} = Counted
        /\ {k \in Keys : node_cache[k] # NULL} = Counted
        /\ \A k \in Counted : BucketsOf(k) = {node_cache[k]}
        /\ \A p \in DOMAIN lfu : \A i, j \in DOMAIN lfu[p].items :
               lfu[p].items[i] = lfu[p].items[j] => i = j

(* -------------------------------- C32 --------------------------------- *)
\* C32: in an LFUCache, in every reachable state, no frequency node after
\* the dummy head of frequency 0 has an empty items map.
C32_NoEmptyBucket ==
    cls = "LFUCache" => \A p \in DOMAIN lfu : lfu[p].items # <<>>

(* -------------------------------- C33 --------------------------------- *)
\* the calls in the current state that increment key k: the indexed read, get
\* and the sets of the key
Increments(k) ==
    {GetItem(Cur, k), GetOf(Cur, k)} \cup {c.res : c \in {d \in Taken(Sets) : d.key = k}}

\* in state r key k is in the node right after position p and in no other,
\* that node has frequency f + 1, and the other nodes are in their order
MovedUp(r, k, p, f) ==
    /\ r.node_cache[k] = p + 1
    /\ p + 1 <= Len(r.lfu)
    /\ r.lfu[p + 1].frequency = f + 1
    /\ \A q \in DOMAIN r.lfu : ItemsHas(r.lfu[q].items, k) <=> q = p + 1
    /\ IF p < Len(lfu) /\ lfu[p + 1].frequency = f + 1
       THEN [q \in DOMAIN r.lfu |-> r.lfu[q].frequency]
                = [q \in DOMAIN lfu |-> lfu[q].frequency]
       ELSE [q \in DOMAIN r.lfu |-> r.lfu[q].frequency]
                = [q \in 1..(Len(lfu) + 1) |->
                     IF q <= p THEN lfu[q].frequency
                     ELSE IF q = p + 1 THEN f + 1
                     ELSE lfu[q - 1].frequency]

\* C33: in an LFUCache, in every reachable state, the frequencies of the
\* nodes after the dummy head (frequency 0) are positive and strictly
\* increasing along the chain, and a get or set of a key of the map moves the
\* key to the node of the next frequency, a new node placed right after the
\* key's node when the node after it has another frequency.
C33_FrequenciesIncreaseByOne ==
    cls = "LFUCache" =>
        /\ \A p \in DOMAIN lfu : lfu[p].frequency > 0
        /\ \A p, q \in DOMAIN lfu : p < q => lfu[p].frequency < lfu[q].frequency
        /\ \A k \in DictKeys(cache) : \A r \in Increments(k) :
               r.exc = "Bound" \/
                   (r.exc = "none" /\ MovedUp(r, k, node_cache[k], lfu[node_cache[k]].frequency))

\* two keys in the nodes of frequency 1 and 2: a read of the first moves it
\* to the existing node 2, a read of the second makes the node 3
C33_Witness ==
    /\ cls = "LFUCache"
    /\ Len(lfu) = 2
    /\ \E j, k \in DictKeys(cache) :
          /\ node_cache[j] = 1 /\ node_cache[k] = 2
          /\ Len(GetItem(Cur, j).lfu) = 2 /\ GetItem(Cur, j).node_cache[j] = 2
          /\ Len(GetItem(Cur, k).lfu) = 3 /\ GetItem(Cur, k).lfu[3].frequency = 3

(* -------------------------------- C34 --------------------------------- *)
\* the keys at most n popitem() calls remove from state s, the calls that
\* raise included
RECURSIVE Victims(_, _)
Victims(s, n) ==
    IF n = 0 THEN {}
    ELSE Bind(PopItem(s), LAMBDA r :
         (DictKeys(s.cache) \ DictKeys(r.cache)) \cup Victims(Caught(r), n - 1))

\* key k is an eviction candidate of state r
Candidate(r, k) == k \in Victims(r, NumKeys + 1)

\* the sets in the current state of a key of the map last set with the
\* flag before, now with the flag after
Flips(before, after) ==
    {c \in Taken(Sets) :
        /\ Has(cache, c.key) /\ persists[c.key] = before
        /\ c.flag = after
        /\ c.res.exc = "none"}

\* C34: in a VolatileLFUCache, a set with expires=False of a key of the map
\* last set with expires=True takes the key out of the frequency nodes, and
\* the key is no eviction candidate afterwards; a set with expires=True of a
\* key last set with expires=False puts it in the node of frequency 1, and
\* the key is an eviction candidate afterwards.
C34_FlagFlipMovesTheKey ==
    cls = "VolatileLFUCache" =>
        /\ \A c \in Flips("expires", FALSE) :
               /\ c.res.node_cache[c.key] = NULL
               /\ \A p \in DOMAIN c.res.lfu : ~ItemsHas(c.res.lfu[p].items, c.key)
               /\ ~Candidate(c.res, c.key)
        /\ \A c \in Flips("persists", TRUE) :
               /\ c.res.node_cache[c.key] = 1
               /\ c.res.lfu[1].frequency = 1
               /\ \A p \in DOMAIN c.res.lfu : ItemsHas(c.res.lfu[p].items, c.key) <=> p = 1
               /\ Candidate(c.res, c.key)

\* two keys of the map, one last set with each flag: the set that flips the
\* first takes it out of the eviction candidates, the set that flips the
\* second makes it one
C34_Witness ==
    /\ cls = "VolatileLFUCache"
    /\ \E c \in Flips("expires", FALSE) : ~Candidate(c.res, c.key) /\ Candidate(Cur, c.key)
    /\ \E c \in Flips("persists", TRUE) : Candidate(c.res, c.key) /\ ~Candidate(Cur, c.key)

(* -------------------------------- C35 --------------------------------- *)
\* the array holds each key of K once and no other key, and idx_map gives
\* the position of each of them and has no other key
IndexesExactly(K) ==
    /\ Range(set) = K
    /\ \A i, j \in DOMAIN set : set[i] = set[j] => i = j
    /\ \A k \in Keys : IF k \in K THEN idx_map[k] \in DOMAIN set /\ set[idx_map[k]] = k
                                  ELSE idx_map[k] = NULL

\* the keys popitem() can remove in the current state, one for each value
\* random.choice can return
RandomVictims ==
    {r.ret[1] : r \in {q \in {PopItem(CurWith(rnd, 0)) : rnd \in Choices} :
                          q.exc = "none" /\ Len(q.ret) = 2}}

\* C35: in a RandomCache, in every reachable state, the array holds exactly
\* the keys of the map, each once, idx_map[key] is the position of the key in
\* the array, and the keys a random eviction can remove are exactly the keys
\* of the map, each removed from the map by the eviction that draws it.
C35_ArrayIndexesTheMap ==
    cls = "RandomCache" =>
        /\ IndexesExactly(DictKeys(cache))
        /\ RandomVictims = DictKeys(cache)
        /\ \A rnd \in Choices : Bind(PopItem(CurWith(rnd, 0)), LAMBDA r :
               cache # <<>> =>
                   /\ r.exc = "none"
                   /\ DictKeys(r.cache) = DictKeys(cache) \ {r.ret[1]}
                   /\ r.ret[2] = Lookup(cache, r.ret[1]))

\* two keys, either of which can be the victim; the delete of the first key
\* of the array moves the last key into its place
C35_Witness ==
    /\ cls = "RandomCache"
    /\ Len(set) = 2
    /\ RandomVictims = {set[1], set[2]}
    /\ Bind(DelItem(Cur, set[1]), LAMBDA r :
           r.exc = "none" /\ r.set = <<set[2]>> /\ r.idx_map[set[2]] = 1)

(* -------------------------------- C36 --------------------------------- *)
\* C36: in a VolatileRandomCache, in every reachable state, the array holds
\* only keys of the map whose most recent set was non-persistent, each once,
\* idx_map has the position of each key of the array and no other key, and a
\* random eviction that returns removes such a key.
C36_ArrayHoldsEvictableKeysOnly ==
    cls = "VolatileRandomCache" =>
        /\ Range(set) \subseteq Evictable
        /\ IndexesExactly(Range(set))
        /\ \A rnd \in Choices : Bind(PopItem(CurWith(rnd, 0)), LAMBDA r :
               set # <<>> => r.exc = "none" /\ r.ret[1] \in Evictable)

(* -------------------------------- C37 --------------------------------- *)
\* the keys of the map that have reached the expiry of their most recent set
PastExpiry ==
    IF cls = "VTTLCache" THEN {k \in DictKeys(cache) : dueAt[k] <= now} ELSE Due

\* C37: in TTLCache, VTTLCache and VolatileTTLCache, keys(), values() and
\* items() asked for in any reachable state show no key that has reached the
\* expiry of its most recent set.
C37_ViewsShowNoExpiredKey ==
    cls \in {"TTLCache", "VTTLCache", "VolatileTTLCache"} =>
        /\ Range(RCache_keys(Cur).ret) \cap PastExpiry = {}
        /\ Len(RCache_values(Cur).ret) = Cardinality(DictKeys(cache) \ PastExpiry)
        /\ DictKeys(RCache_items(Cur).ret) \cap PastExpiry = {}

(* -------------------------------- C38 --------------------------------- *)
\* C38: in a TTLCache built with a clock of its own, in every reachable
\* state, whatever time.monotonic reads, a sweep that returns removes the
\* keys whose expiry, that clock's reading at the most recent set plus ttl,
\* that clock has reached, and leaves the others in the map.
C38_InjectedClockDecidesExpiry ==
    cls = "TTLCache" =>
        \A k \in DictKeys(cache) :
            Bind(LenOf(Cur), LAMBDA r :
                r.exc = "none" => (Has(r.cache, k) <=> time < setAt[k] + ttl))

(* -------------------------------- C39 --------------------------------- *)
\* C39: in a VolatileLRUCache, the indexed read of a key of the map whose
\* most recent set was non-persistent returns the key's value, leaves the
\* map as it is, and makes the key the last that repeated evictions remove,
\* whatever the value is.
C39_GetMakesKeyMostRecent ==
    cls = "VolatileLRUCache" =>
        \A k \in Evictable :
            Bind(GetItem(Cur, k), LAMBDA r :
                /\ r.exc = "none"
                /\ r.ret = <<Lookup(cache, k)>>
                /\ r.cache = cache
                /\ Bind(Drain(Statement(r)), LAMBDA q : q # <<>> /\ q[Len(q)] = k))

(* -------------------------------- C40 --------------------------------- *)
\* the link at the head of the chain has not expired
HeadUnexpired == head # NULL /\ now < heap[head].expiry

\* the keys of the map behind the head whose links have expired
LateKeys ==
    {k \in DictKeys(cache) :
        links[k] # NULL /\ links[k] # head /\ heap[links[k]].expiry <= now}

====
